---------------------------- MODULE Spec2Model ----------------------------
(***************************************************************************)
(* Matching engine of package fastme (engine.go): order lookup, two book   *)
(* sides (hash map of price levels + red-black price index), per-price     *)
(* FIFO queues, and the PlaceOrder / ReplaceOrder / CancelOrder handlers   *)
(* with their wallet movements and listener events.                        *)
(*                                                                         *)
(* Pointers are modelled as identifiers into heaps: *queue is a QId into   *)
(* `queues`, *list.Element an ElId into `els`, *rbtNode a node id into the *)
(* tree's `nodes`.  NIL (0) is the nil pointer.  The Order stored in a     *)
(* list element is the record held in `els`.                               *)
(***************************************************************************)
EXTENDS Integers, Sequences, FiniteSets, TLC

\* ------------------------------------------------------------------
\* Bounds of the explored inputs
\* ------------------------------------------------------------------
MaxPrice == 2
MaxQty == 2
InitBase == 2
InitQuote == 4
MaxCalls == 3
MaxRejectCalls == 3
MaxDeepCalls == 5
MaxHostCalls == 2
MaxHeldCalls == 3
MaxThreadCalls == 2
MaxQueryCalls == 3
MaxKey == 4

NIL == 0
Nil == -1000

base == "apples"
quote == "dollars"
Assets == {base, quote}

Wallets == {"w1", "w2"}
NilWallet == "nilWallet"

IdSeq == <<"a", "b", "c">>
Ids == {IdSeq[i] : i \in 1..Len(IdSeq)}

\* ------------------------------------------------------------------
\* Value (tFloat64 of the test suite; Nil is the nil interface value)
\* ------------------------------------------------------------------
checkNil(v) == IF v = Nil THEN 0 ELSE v

Add(t, n) == t + checkNil(n)

Sub(t, n) == t - checkNil(n)

Mul(t, n) == t * checkNil(n)

Cmp(t, n) == IF t > checkNil(n) THEN 1 ELSE IF t < checkNil(n) THEN -1 ELSE 0

Sign(t) == IF t < 0 THEN -1 ELSE IF t > 0 THEN 1 ELSE 0

Hash(t) == ToString(t)

\* ------------------------------------------------------------------
\* Go maps and heaps: functions with a growing and shrinking domain
\* ------------------------------------------------------------------
EmptyMap == [k \in {} |-> NIL]

MapPut(f, k, v) == [x \in (DOMAIN f) \cup {k} |-> IF x = k THEN v ELSE f[x]]

MapDel(f, k) == [x \in (DOMAIN f) \ {k} |-> f[x]]

FreshId(dom) ==
    CHOOSE i \in 1..(Cardinality(dom) + 1) :
        i \notin dom /\ \A j \in 1..(i - 1) : j \in dom

\* a local variable: B applied to v, which is computed once
Let(v, B(_)) == B(v)

\* ------------------------------------------------------------------
\* Red-black tree (rbTree, rbtNode)
\* ------------------------------------------------------------------
black == TRUE
red == FALSE

newRBTree == [root |-> NIL, nodes |-> EmptyMap, size |-> 0]

comp(a, b) == Cmp(a, b)

newNode(key, value, parent) ==
    [Key |-> key, Value |-> value, color |-> red,
     Left |-> NIL, Right |-> NIL, Parent |-> parent]

nodeColor(t, n) == IF n = NIL THEN black ELSE t.nodes[n].color

grandparent(t, n) ==
    IF n # NIL /\ t.nodes[n].Parent # NIL
    THEN t.nodes[t.nodes[n].Parent].Parent
    ELSE NIL

sibling(t, n) ==
    IF n = NIL \/ t.nodes[n].Parent = NIL THEN NIL
    ELSE IF n = t.nodes[t.nodes[n].Parent].Left
         THEN t.nodes[t.nodes[n].Parent].Right
         ELSE t.nodes[t.nodes[n].Parent].Left

uncle(t, n) ==
    IF n = NIL \/ t.nodes[n].Parent = NIL
              \/ t.nodes[t.nodes[n].Parent].Parent = NIL
    THEN NIL
    ELSE sibling(t, t.nodes[n].Parent)

RECURSIVE maximumNode(_, _)
maximumNode(t, n) ==
    IF n = NIL THEN NIL
    ELSE IF t.nodes[n].Right # NIL THEN maximumNode(t, t.nodes[n].Right)
    ELSE n

RECURSIVE lookup(_, _, _)
lookup(t, key, node) ==
    IF node = NIL THEN NIL
    ELSE LET compare == comp(key, t.nodes[node].Key)
         IN  IF compare = 0 THEN node
             ELSE IF compare < 0 THEN lookup(t, key, t.nodes[node].Left)
             ELSE lookup(t, key, t.nodes[node].Right)

replaceNode(t, old, new) ==
    LET p == t.nodes[old].Parent
        t1 == IF p = NIL THEN [t EXCEPT !.root = new]
              ELSE IF old = t.nodes[p].Left
                   THEN [t EXCEPT !.nodes[p].Left = new]
                   ELSE [t EXCEPT !.nodes[p].Right = new]
    IN  IF new # NIL THEN [t1 EXCEPT !.nodes[new].Parent = p] ELSE t1

rotateLeft(t, n) ==
    Let(replaceNode(t, n, t.nodes[n].Right), LAMBDA t1 :
        LET right == t.nodes[n].Right
            rl == t1.nodes[right].Left
            t2 == [t1 EXCEPT !.nodes[n].Right = rl]
            t3 == IF rl # NIL THEN [t2 EXCEPT !.nodes[rl].Parent = n] ELSE t2
            t4 == [t3 EXCEPT !.nodes[right].Left = n]
        IN  [t4 EXCEPT !.nodes[n].Parent = right])

rotateRight(t, n) ==
    Let(replaceNode(t, n, t.nodes[n].Left), LAMBDA t1 :
        LET left == t.nodes[n].Left
            lr == t1.nodes[left].Right
            t2 == [t1 EXCEPT !.nodes[n].Left = lr]
            t3 == IF lr # NIL THEN [t2 EXCEPT !.nodes[lr].Parent = n] ELSE t2
            t4 == [t3 EXCEPT !.nodes[left].Right = n]
        IN  [t4 EXCEPT !.nodes[n].Parent = left])

RECURSIVE insertCase1(_, _)

insertCase5(t, n) ==
    LET p == t.nodes[n].Parent
        t1 == [t EXCEPT !.nodes[p].color = black]
        g == grandparent(t1, n)
        t2 == [t1 EXCEPT !.nodes[g].color = red]
    IN  IF n = t2.nodes[p].Left /\ p = t2.nodes[g].Left THEN rotateRight(t2, g)
        ELSE IF n = t2.nodes[p].Right /\ p = t2.nodes[g].Right THEN rotateLeft(t2, g)
        ELSE t2

insertCase4(t, n) ==
    LET g == grandparent(t, n)
        p == t.nodes[n].Parent
    IN  Let(IF n = t.nodes[p].Right /\ p = t.nodes[g].Left
            THEN Let(rotateLeft(t, p), LAMBDA t1 :
                     [t |-> t1, node |-> t1.nodes[n].Left])
            ELSE IF n = t.nodes[p].Left /\ p = t.nodes[g].Right
            THEN Let(rotateRight(t, p), LAMBDA t1 :
                     [t |-> t1, node |-> t1.nodes[n].Right])
            ELSE [t |-> t, node |-> n], LAMBDA r :
        insertCase5(r.t, r.node))

insertCase3(t, n) ==
    LET u == uncle(t, n)
    IN  IF nodeColor(t, u) = red
        THEN LET t1 == [t EXCEPT !.nodes[t.nodes[n].Parent].color = black]
                 t2 == [t1 EXCEPT !.nodes[u].color = black]
                 t3 == [t2 EXCEPT !.nodes[grandparent(t2, n)].color = red]
             IN  insertCase1(t3, grandparent(t3, n))
        ELSE insertCase4(t, n)

insertCase2(t, n) ==
    IF nodeColor(t, t.nodes[n].Parent) = black THEN t ELSE insertCase3(t, n)

insertCase1(t, n) ==
    IF t.nodes[n].Parent = NIL
    THEN [t EXCEPT !.nodes[n].color = black]
    ELSE insertCase2(t, n)

\* the descent of put: the tree after linking the new node, and that node
\* (NIL when an equal key was overwritten)
RECURSIVE putDescend(_, _, _, _)
putDescend(t, key, value, node) ==
    LET compare == comp(key, t.nodes[node].Key)
        fresh == FreshId(DOMAIN t.nodes)
    IN  IF compare = 0
        THEN [t |-> [t EXCEPT !.nodes[node].Key = key,
                               !.nodes[node].Value = value],
              insertedNode |-> NIL]
        ELSE IF compare < 0
        THEN IF t.nodes[node].Left = NIL
             THEN [t |-> [t EXCEPT
                           !.nodes = MapPut([t.nodes EXCEPT ![node].Left = fresh],
                                            fresh, newNode(key, value, node))],
                   insertedNode |-> fresh]
             ELSE putDescend(t, key, value, t.nodes[node].Left)
        ELSE IF t.nodes[node].Right = NIL
             THEN [t |-> [t EXCEPT
                           !.nodes = MapPut([t.nodes EXCEPT ![node].Right = fresh],
                                            fresh, newNode(key, value, node))],
                   insertedNode |-> fresh]
             ELSE putDescend(t, key, value, t.nodes[node].Right)

\* put that links the new node and leaves the tree as it is
putUnbalanced(t, key, value) ==
    IF t.root = NIL
    THEN LET fresh == FreshId(DOMAIN t.nodes)
         IN  [t EXCEPT !.root = fresh,
                       !.nodes = MapPut(t.nodes, fresh, newNode(key, value, NIL)),
                       !.size = @ + 1]
    ELSE Let(putDescend(t, key, value, t.root), LAMBDA d :
             IF d.insertedNode = NIL THEN d.t
             ELSE [d.t EXCEPT !.size = @ + 1])

put(t, key, value) ==
    IF t.root = NIL
    THEN LET fresh == FreshId(DOMAIN t.nodes)
             t1 == [t EXCEPT !.root = fresh,
                             !.nodes = MapPut(t.nodes, fresh,
                                              newNode(key, value, NIL))]
         IN  [insertCase1(t1, fresh) EXCEPT !.size = @ + 1]
    ELSE Let(putDescend(t, key, value, t.root), LAMBDA d :
             IF d.insertedNode = NIL THEN d.t
             ELSE [insertCase1(d.t, d.insertedNode) EXCEPT !.size = @ + 1])

RECURSIVE deleteCase1(_, _)

deleteCase6(t, n) ==
    LET s == sibling(t, n)
        p == t.nodes[n].Parent
        t1 == [t EXCEPT !.nodes[s].color = nodeColor(t, p)]
        t2 == [t1 EXCEPT !.nodes[p].color = black]
    IN  IF n = t2.nodes[p].Left /\ nodeColor(t2, t2.nodes[s].Right) = red
        THEN rotateLeft([t2 EXCEPT !.nodes[t2.nodes[s].Right].color = black], p)
        ELSE IF nodeColor(t2, t2.nodes[s].Left) = red
        THEN rotateRight([t2 EXCEPT !.nodes[t2.nodes[s].Left].color = black], p)
        ELSE t2

deleteCase5(t, n) ==
    LET s == sibling(t, n)
        p == t.nodes[n].Parent
    IN  deleteCase6(
            IF n = t.nodes[p].Left
               /\ nodeColor(t, s) = black
               /\ nodeColor(t, t.nodes[s].Left) = red
               /\ nodeColor(t, t.nodes[s].Right) = black
            THEN LET t1 == [t EXCEPT !.nodes[s].color = red]
                     t2 == [t1 EXCEPT !.nodes[t1.nodes[s].Left].color = black]
                 IN  rotateRight(t2, s)
            ELSE IF n = t.nodes[p].Right
               /\ nodeColor(t, s) = black
               /\ nodeColor(t, t.nodes[s].Right) = red
               /\ nodeColor(t, t.nodes[s].Left) = black
            THEN LET t1 == [t EXCEPT !.nodes[s].color = red]
                     t2 == [t1 EXCEPT !.nodes[t1.nodes[s].Right].color = black]
                 IN  rotateLeft(t2, s)
            ELSE t,
            n)

deleteCase4(t, n) ==
    LET s == sibling(t, n)
        p == t.nodes[n].Parent
    IN  IF nodeColor(t, p) = red
           /\ nodeColor(t, s) = black
           /\ nodeColor(t, t.nodes[s].Left) = black
           /\ nodeColor(t, t.nodes[s].Right) = black
        THEN LET t1 == [t EXCEPT !.nodes[s].color = red]
             IN  [t1 EXCEPT !.nodes[p].color = black]
        ELSE deleteCase5(t, n)

deleteCase3(t, n) ==
    LET s == sibling(t, n)
        p == t.nodes[n].Parent
    IN  IF nodeColor(t, p) = black
           /\ nodeColor(t, s) = black
           /\ nodeColor(t, t.nodes[s].Left) = black
           /\ nodeColor(t, t.nodes[s].Right) = black
        THEN deleteCase1([t EXCEPT !.nodes[s].color = red], p)
        ELSE deleteCase4(t, n)

deleteCase2(t, n) ==
    LET s == sibling(t, n)
        p == t.nodes[n].Parent
    IN  deleteCase3(
            IF nodeColor(t, s) = red
            THEN LET t1 == [t EXCEPT !.nodes[p].color = red]
                     t2 == [t1 EXCEPT !.nodes[s].color = black]
                 IN  IF n = t2.nodes[p].Left
                     THEN rotateLeft(t2, p)
                     ELSE rotateRight(t2, p)
            ELSE t,
            n)

deleteCase1(t, n) ==
    IF t.nodes[n].Parent = NIL THEN t ELSE deleteCase2(t, n)

\* the unlinked node is no longer reachable and leaves the heap
remove(t, key) ==
    Let(lookup(t, key, t.root), LAMBDA found :
    IF found = NIL THEN t
    ELSE
    Let(t.nodes[found].Left # NIL /\ t.nodes[found].Right # NIL, LAMBDA two :
    Let(IF two THEN maximumNode(t, t.nodes[found].Left) ELSE found, LAMBDA node :
    Let(IF two
        THEN [t EXCEPT !.nodes[found].Key = t.nodes[node].Key,
                       !.nodes[found].Value = t.nodes[node].Value]
        ELSE t, LAMBDA t1 :
    Let(IF t1.nodes[node].Right = NIL
        THEN t1.nodes[node].Left
        ELSE t1.nodes[node].Right, LAMBDA child :
    Let(IF t1.nodes[node].color = black
        THEN deleteCase1(
               [t1 EXCEPT !.nodes[node].color = nodeColor(t1, child)], node)
        ELSE t1, LAMBDA t2 :
    Let(replaceNode(t2, node, child), LAMBDA t3 :
        [(IF t3.nodes[node].Parent = NIL /\ child # NIL
          THEN [t3 EXCEPT !.nodes[child].color = black]
          ELSE t3)
         EXCEPT !.nodes = MapDel(@, node), !.size = @ - 1])))))))

RECURSIVE getMinFromNode(_, _)
getMinFromNode(t, n) ==
    IF n = NIL THEN NIL
    ELSE IF t.nodes[n].Left = NIL THEN n
    ELSE getMinFromNode(t, t.nodes[n].Left)

RECURSIVE getMaxFromNode(_, _)
getMaxFromNode(t, n) ==
    IF n = NIL THEN NIL
    ELSE IF t.nodes[n].Right = NIL THEN n
    ELSE getMaxFromNode(t, t.nodes[n].Right)

\* the value of the minimum key, NIL when not found
getMin(t) ==
    LET node == getMinFromNode(t, t.root)
    IN  IF node # NIL THEN t.nodes[node].Value ELSE NIL

getMax(t) ==
    LET node == getMaxFromNode(t, t.root)
    IN  IF node # NIL THEN t.nodes[node].Value ELSE NIL

\* ------------------------------------------------------------------
\* Machine state threaded through the handlers: the Engine's fields, the
\* heaps its pointers lead to, the wallets, and what the listener received
\* ------------------------------------------------------------------
ErrInvalidQuantity == "ErrInvalidQuantity"
ErrInvalidPrice == "ErrInvalidPrice"
ErrInvalidOrder == "ErrInvalidOrder"
ErrInsufficientQuantity == "ErrInsufficientQuantity"
ErrInsufficientFunds == "ErrInsufficientFunds"
ErrOrderExists == "ErrOrderExists"
ErrOrderNotFound == "ErrOrderNotFound"
NoError == "nil error"

emptyFeeHandlerValue == "emptyFeeHandler"
hostFeeHandlerValue == "hostFeeHandler"
NilFeeHandler == "nil"

newSide == [prices |-> EmptyMap, priceTree |-> newRBTree,
            numOrders |-> 0, depth |-> 0]

SideOf(sell) == IF sell THEN "asks" ELSE "bids"

\* ------------------------------------------------------------------
\* Order queue of one price level
\* ------------------------------------------------------------------
newQueue(price) == [volume |-> Nil, price |-> price, orders |-> <<>>]

\* queueAppend with list.PushFront
queueAppendFront(m, q, o) ==
    LET el == FreshId(DOMAIN m.els)
    IN  [m |-> [m EXCEPT !.queues[q].volume = Add(o.quantity, @),
                         !.queues[q].orders = <<el>> \o @,
                         !.els = MapPut(@, el, o)],
         el |-> el]

\* list.PushBack: a new element at the back, holding o
queueAppend(m, q, o) ==
    LET el == FreshId(DOMAIN m.els)
    IN  [m |-> [m EXCEPT !.queues[q].volume = Add(o.quantity, @),
                         !.queues[q].orders = Append(@, el),
                         !.els = MapPut(@, el, o)],
         el |-> el]

\* list.Remove unlinks e only from the list it belongs to
queueRemove(m, q, e) ==
    [m EXCEPT !.queues[q].volume = Sub(@, m.els[e].quantity),
              !.queues[q].orders = SelectSeq(@, LAMBDA x : x # e)]

queueUpdateQuantity(m, q, e, qty) ==
    [m EXCEPT !.queues[q].volume = Add(Sub(@, m.els[e].quantity), qty),
              !.els[e].quantity = qty]

\* ------------------------------------------------------------------
\* Book side
\* ------------------------------------------------------------------
sideAppend(m, s, o) ==
    LET p == o.price
        h == Hash(p)
        ok == h \in DOMAIN m[s].prices
        fresh == FreshId(DOMAIN m.queues)
        q == IF ok THEN m[s].prices[h] ELSE fresh
        m1 == IF ok THEN m
              ELSE [m EXCEPT !.queues = MapPut(@, fresh, newQueue(p)),
                             ![s].prices = MapPut(@, h, fresh),
                             ![s].priceTree = put(@, p, fresh),
                             ![s].depth = @ + 1]
    IN  queueAppend([m1 EXCEPT ![s].numOrders = @ + 1], q, o)

\* sideRemove that keeps the level of a queue it has emptied
sideRemoveKeepLevel(m, s, e) ==
    LET p == m.els[e].price
        h == Hash(p)
        q == m[s].prices[h]
    IN  [queueRemove(m, q, e) EXCEPT ![s].numOrders = @ - 1]

sideRemove(m, s, e) ==
    LET p == m.els[e].price
        h == Hash(p)
        q == m[s].prices[h]
        m1 == queueRemove(m, q, e)
    IN  [(IF Len(m1.queues[q].orders) = 0
          THEN [m1 EXCEPT ![s].prices = MapDel(@, h),
                          ![s].priceTree = remove(@, p),
                          ![s].depth = @ - 1]
          ELSE m1)
         EXCEPT ![s].numOrders = @ - 1]

maxPrice(m, s) == IF m[s].depth > 0 THEN getMax(m[s].priceTree) ELSE NIL

minPrice(m, s) == IF m[s].depth > 0 THEN getMin(m[s].priceTree) ELSE NIL

RECURSIVE ceilingWalk(_, _, _, _)
ceilingWalk(tree, price, node, ceiling) ==
    IF node = NIL THEN ceiling
    ELSE IF comp(price, tree.nodes[node].Key) < 0
         THEN ceilingWalk(tree, price, tree.nodes[node].Left, node)
         ELSE ceilingWalk(tree, price, tree.nodes[node].Right, ceiling)

greaterThan(m, s, price) ==
    LET tree == m[s].priceTree
        ceiling == ceilingWalk(tree, price, tree.root, NIL)
    IN  IF ceiling # NIL THEN tree.nodes[ceiling].Value ELSE NIL

RECURSIVE floorWalk(_, _, _, _)
floorWalk(tree, price, node, floor) ==
    IF node = NIL THEN floor
    ELSE IF comp(price, tree.nodes[node].Key) > 0
         THEN floorWalk(tree, price, tree.nodes[node].Right, node)
         ELSE floorWalk(tree, price, tree.nodes[node].Left, floor)

lessThan(m, s, price) ==
    LET tree == m[s].priceTree
        floor == floorWalk(tree, price, tree.root, NIL)
    IN  IF floor # NIL THEN tree.nodes[floor].Value ELSE NIL

\* ------------------------------------------------------------------
\* Engine internals
\* ------------------------------------------------------------------
push(m, o) ==
    Let(sideAppend(m, SideOf(o.sell), o), LAMBDA r :
        [r.m EXCEPT !.orders = MapPut(@, o.id, r.el)])

\* pull that takes the first order of the level at the order's price when
\* the lookup does not have its id
pullFirstOfLevel(m, o) ==
    IF o.id \notin DOMAIN m.orders
    THEN IF Hash(o.price) \in DOMAIN m[SideOf(o.sell)].prices
         THEN sideRemove(m, SideOf(o.sell),
                Head(m.queues[m[SideOf(o.sell)].prices[Hash(o.price)]].orders))
         ELSE m
    ELSE LET el == m.orders[o.id]
         IN  [sideRemove(m, SideOf(m.els[el].sell), el)
              EXCEPT !.orders = MapDel(@, o.id)]

pull(m, o) ==
    IF o.id \notin DOMAIN m.orders THEN m
    ELSE LET el == m.orders[o.id]
         IN  [sideRemove(m, SideOf(m.els[el].sell), el)
              EXCEPT !.orders = MapDel(@, o.id)]

RECURSIVE priceLoop(_, _, _, _, _)
priceLoop(m, sell, quantity, level, price) ==
    IF Sign(quantity) > 0 /\ level # NIL
    THEN IF Cmp(quantity, m.queues[level].volume) < 0
         THEN [value |-> Add(Mul(m.queues[level].price, quantity), price),
               err |-> NoError]
         ELSE priceLoop(m, sell,
                Sub(quantity, m.queues[level].volume),
                IF sell THEN lessThan(m, "bids", m.queues[level].price)
                        ELSE greaterThan(m, "asks", m.queues[level].price),
                Add(Mul(m.queues[level].price, m.queues[level].volume), price))
    ELSE IF Sign(quantity) > 0
         THEN [value |-> Nil, err |-> ErrInsufficientQuantity]
         ELSE [value |-> price, err |-> NoError]

\* price that starts at the far end of the opposite side
priceFromWorst(m, sell, quantity) ==
    priceLoop(m, sell, quantity,
              IF sell THEN minPrice(m, "bids") ELSE maxPrice(m, "asks"),
              Nil)

\* price that reports no shortage of resting quantity
priceUnchecked(m, sell, quantity) ==
    [value |-> priceLoop(m, sell, quantity,
                  IF sell THEN maxPrice(m, "bids") ELSE minPrice(m, "asks"),
                  Nil).value,
     err |-> NoError]

price(m, sell, quantity) ==
    priceLoop(m, sell, quantity,
              IF sell THEN maxPrice(m, "bids") ELSE minPrice(m, "asks"),
              Nil)

RECURSIVE quantityLoop(_, _, _, _, _)
quantityLoop(m, sell, priceLim, level, quantity) ==
    IF level # NIL
    THEN IF /\ priceLim # Nil
            /\ \/ sell /\ Cmp(m.queues[level].price, priceLim) < 0
               \/ ~sell /\ Cmp(m.queues[level].price, priceLim) > 0
         THEN quantity
         ELSE quantityLoop(m, sell, priceLim,
                IF sell THEN lessThan(m, "bids", m.queues[level].price)
                        ELSE greaterThan(m, "asks", m.queues[level].price),
                Add(m.queues[level].volume, quantity))
    ELSE quantity

FindOrder(m, id) ==
    IF id \notin DOMAIN m.orders
    THEN [value |-> Nil, err |-> ErrOrderNotFound]
    ELSE [value |-> m.els[m.orders[id]], err |-> NoError]

\* Spread that reads both components at the top of their side
SpreadOfMax(m) ==
    <<IF maxPrice(m, "asks") # NIL
      THEN m.queues[maxPrice(m, "asks")].price ELSE Nil,
      IF maxPrice(m, "bids") # NIL
      THEN m.queues[maxPrice(m, "bids")].price ELSE Nil>>

\* <<bestAsk, bestBid>>
Spread(m) ==
    <<IF minPrice(m, "asks") # NIL
      THEN m.queues[minPrice(m, "asks")].price ELSE Nil,
      IF maxPrice(m, "bids") # NIL
      THEN m.queues[maxPrice(m, "bids")].price ELSE Nil>>

\* the calls of iter made for one side, after those in seen
RECURSIVE OrderBookLoop(_, _, _, _)
OrderBookLoop(m, s, level, seen) ==
    IF level = NIL THEN seen
    ELSE OrderBookLoop(m, s, lessThan(m, s, m.queues[level].price),
            Append(seen, [asks |-> s = "asks",
                          price |-> m.queues[level].price,
                          volume |-> m.queues[level].volume,
                          len |-> Len(m.queues[level].orders)]))

\* OrderBook that walks the bids before the asks
OrderBookBidsFirst(m) ==
    OrderBookLoop(m, "asks", maxPrice(m, "asks"),
        OrderBookLoop(m, "bids", maxPrice(m, "bids"), <<>>))

OrderBook(m) ==
    OrderBookLoop(m, "bids", maxPrice(m, "bids"),
        OrderBookLoop(m, "asks", maxPrice(m, "asks"), <<>>))

\* CanPlace that does not look into the wallet
CanPlaceUnfunded(m, w, sell, quantity, prc) ==
    IF quantity = Nil \/ Sign(quantity) <= 0 THEN ErrInvalidQuantity
    ELSE IF prc = Nil \/ Sign(prc) < 0 THEN ErrInvalidPrice
    ELSE
    Let(IF Sign(prc) = 0
        THEN price(m, sell, quantity)
        ELSE [value |-> Mul(prc, quantity), err |-> NoError], LAMBDA probe :
        IF probe.err # NoError THEN probe.err
        ELSE IF w = NilWallet THEN ErrInsufficientFunds ELSE NoError)

CanPlace(m, w, sell, quantity, prc) ==
    IF quantity = Nil \/ Sign(quantity) <= 0 THEN ErrInvalidQuantity
    ELSE IF prc = Nil \/ Sign(prc) < 0 THEN ErrInvalidPrice
    ELSE
    Let(IF Sign(prc) = 0
        THEN price(m, sell, quantity)
        ELSE [value |-> Mul(prc, quantity), err |-> NoError], LAMBDA probe :
        IF probe.err # NoError THEN probe.err
        ELSE IF sell
        THEN IF w = NilWallet \/ Cmp(m.wallets[w].balance[base], quantity) < 0
             THEN ErrInsufficientFunds ELSE NoError
        ELSE IF w = NilWallet \/ Cmp(m.wallets[w].balance[quote], probe.value) < 0
             THEN ErrInsufficientFunds ELSE NoError)

\* quantity that takes every level, whatever the limit
quantityNoLimit(m, sell, priceLim) ==
    quantityLoop(m, sell, Nil,
                 IF sell THEN maxPrice(m, "bids") ELSE minPrice(m, "asks"),
                 Nil)

quantity(m, sell, priceLim) ==
    quantityLoop(m, sell, priceLim,
                 IF sell THEN maxPrice(m, "bids") ELSE minPrice(m, "asks"),
                 Nil)

\* emptyFeeHandler returns what it is shown; the FeeHandler of the host
\* returns "inValue - feeValue": it keeps one unit of a maker's amount above
\* one unit and one unit of every taker's amount
HandleFeeMaker(h, o, a, in) ==
    IF h = hostFeeHandlerValue /\ in > 1 THEN in - 1 ELSE in

HandleFeeTaker(h, o, a, in) ==
    IF h = hostFeeHandlerValue /\ in > 0 THEN in - 1 ELSE in

\* Emit that hands the listener the newest event first
EmitFirst(m, ev) == [m EXCEPT !.events = <<ev>> \o @]

Emit(m, ev) == [m EXCEPT !.events = Append(@, ev)]

OnBalanceChanged(w, a, v) ==
    [type |-> "OnBalanceChanged", wallet |-> w, asset |-> a, value |-> v]

OnInOrderChanged(w, a, v) ==
    [type |-> "OnInOrderChanged", wallet |-> w, asset |-> a, value |-> v]

OrderEvent(t, o, v) == [type |-> t, id |-> o.id, volume |-> v]

\* updateBalanceOnExchanged crediting the buyer with the amount of quote and
\* the seller with the quantity of base
updateBalanceOnExchangedSwapped(m, o, v, isMaker) ==
    LET wallet == o.owner
        assetInc == IF o.sell THEN quote ELSE base
        assetDec == IF o.sell THEN base ELSE quote
        gross == IF o.sell THEN v.Quantity ELSE v.Price
        valueDec == IF o.sell THEN v.Quantity ELSE v.Price
        valueInc == IF isMaker
                    THEN HandleFeeMaker(m.feeHandler, o, assetInc, gross)
                    ELSE HandleFeeTaker(m.feeHandler, o, assetInc, gross)
    IN  Let(Add(valueInc, m.wallets[wallet].balance[assetInc]), LAMBDA valBalance :
        Let(Emit([m EXCEPT !.wallets[wallet].balance[assetInc] = valBalance],
                 OnBalanceChanged(wallet, assetInc, valBalance)), LAMBDA m1 :
        IF isMaker
        THEN Let(Sub(m1.wallets[wallet].inOrder[assetDec], valueDec),
                 LAMBDA valInOrder :
                 Emit([m1 EXCEPT !.wallets[wallet].inOrder[assetDec] = valInOrder],
                      OnInOrderChanged(wallet, assetDec, valInOrder)))
        ELSE Let(Sub(m1.wallets[wallet].balance[assetDec], valueDec),
                 LAMBDA valInOrder :
                 Emit([m1 EXCEPT !.wallets[wallet].balance[assetDec] = valInOrder],
                      OnBalanceChanged(wallet, assetDec, valInOrder)))))

\* updateBalanceOnExchanged debiting the free balance of the maker as well
updateBalanceOnExchangedFree(m, o, v, isMaker) ==
    LET wallet == o.owner
        assetInc == IF o.sell THEN quote ELSE base
        assetDec == IF o.sell THEN base ELSE quote
        gross == IF o.sell THEN v.Price ELSE v.Quantity
        valueDec == IF o.sell THEN v.Quantity ELSE v.Price
        valueInc == IF isMaker
                    THEN HandleFeeMaker(m.feeHandler, o, assetInc, gross)
                    ELSE HandleFeeTaker(m.feeHandler, o, assetInc, gross)
    IN  Let(Add(valueInc, m.wallets[wallet].balance[assetInc]), LAMBDA valBalance :
        Let(Emit([m EXCEPT !.wallets[wallet].balance[assetInc] = valBalance],
                 OnBalanceChanged(wallet, assetInc, valBalance)), LAMBDA m1 :
        IF FALSE
        THEN Let(Sub(m1.wallets[wallet].inOrder[assetDec], valueDec),
                 LAMBDA valInOrder :
                 Emit([m1 EXCEPT !.wallets[wallet].inOrder[assetDec] = valInOrder],
                      OnInOrderChanged(wallet, assetDec, valInOrder)))
        ELSE Let(Sub(m1.wallets[wallet].balance[assetDec], valueDec),
                 LAMBDA valInOrder :
                 Emit([m1 EXCEPT !.wallets[wallet].balance[assetDec] = valInOrder],
                      OnBalanceChanged(wallet, assetDec, valInOrder)))))

\* updateBalanceOnExchanged asking HandleFeeMaker for the taker as well
updateBalanceOnExchangedMakerFee(m, o, v, isMaker) ==
    LET wallet == o.owner
        assetInc == IF o.sell THEN quote ELSE base
        assetDec == IF o.sell THEN base ELSE quote
        gross == IF o.sell THEN v.Price ELSE v.Quantity
        valueDec == IF o.sell THEN v.Quantity ELSE v.Price
        valueInc == IF TRUE
                    THEN HandleFeeMaker(m.feeHandler, o, assetInc, gross)
                    ELSE HandleFeeTaker(m.feeHandler, o, assetInc, gross)
        called == [maker |-> TRUE, id |-> o.id, owner |-> o.owner,
                   asset |-> assetInc, in |-> gross, out |-> valueInc]
    IN  Let(Add(valueInc, m.wallets[wallet].balance[assetInc]), LAMBDA valBalance :
        Let(Emit([m EXCEPT !.wallets[wallet].balance[assetInc] = valBalance,
                           !.fees = Append(@, called)],
                 OnBalanceChanged(wallet, assetInc, valBalance)), LAMBDA m1 :
        IF isMaker
        THEN Let(Sub(m1.wallets[wallet].inOrder[assetDec], valueDec),
                 LAMBDA valInOrder :
                 Emit([m1 EXCEPT !.wallets[wallet].inOrder[assetDec] = valInOrder],
                      OnInOrderChanged(wallet, assetDec, valInOrder)))
        ELSE Let(Sub(m1.wallets[wallet].balance[assetDec], valueDec),
                 LAMBDA valInOrder :
                 Emit([m1 EXCEPT !.wallets[wallet].balance[assetDec] = valInOrder],
                      OnBalanceChanged(wallet, assetDec, valInOrder)))))

\* fees: the calls of the fee handler, in order
updateBalanceOnExchanged(m, o, v, isMaker) ==
    LET wallet == o.owner
        assetInc == IF o.sell THEN quote ELSE base
        assetDec == IF o.sell THEN base ELSE quote
        gross == IF o.sell THEN v.Price ELSE v.Quantity
        valueDec == IF o.sell THEN v.Quantity ELSE v.Price
        valueInc == IF isMaker
                    THEN HandleFeeMaker(m.feeHandler, o, assetInc, gross)
                    ELSE HandleFeeTaker(m.feeHandler, o, assetInc, gross)
        called == [maker |-> isMaker, id |-> o.id, owner |-> o.owner,
                   asset |-> assetInc, in |-> gross, out |-> valueInc]
    IN  Let(Add(valueInc, m.wallets[wallet].balance[assetInc]), LAMBDA valBalance :
        Let(Emit([m EXCEPT !.wallets[wallet].balance[assetInc] = valBalance,
                           !.fees = Append(@, called)],
                 OnBalanceChanged(wallet, assetInc, valBalance)), LAMBDA m1 :
        IF isMaker
        THEN Let(Sub(m1.wallets[wallet].inOrder[assetDec], valueDec),
                 LAMBDA valInOrder :
                 Emit([m1 EXCEPT !.wallets[wallet].inOrder[assetDec] = valInOrder],
                      OnInOrderChanged(wallet, assetDec, valInOrder)))
        ELSE Let(Sub(m1.wallets[wallet].balance[assetDec], valueDec),
                 LAMBDA valInOrder :
                 Emit([m1 EXCEPT !.wallets[wallet].balance[assetDec] = valInOrder],
                      OnBalanceChanged(wallet, assetDec, valInOrder)))))

\* updateBalanceOnPlaced reserving the quantity of a buy order, not its cost
updateBalanceOnPlacedQuantity(m, o) ==
    LET wallet == o.owner
        asset == IF o.sell THEN base ELSE quote
        value == o.quantity
        valBalance == Sub(m.wallets[wallet].balance[asset], value)
        m1 == Emit([m EXCEPT !.wallets[wallet].balance[asset] = valBalance],
                   OnBalanceChanged(wallet, asset, valBalance))
        valInOrder == Add(value, m1.wallets[wallet].inOrder[asset])
    IN  Emit([m1 EXCEPT !.wallets[wallet].inOrder[asset] = valInOrder],
             OnInOrderChanged(wallet, asset, valInOrder))

\* updateBalanceOnPlaced that raises the in-order amount and leaves the
\* free balance as it was
updateBalanceOnPlacedKeepBalance(m, o) ==
    LET wallet == o.owner
        asset == IF o.sell THEN base ELSE quote
        value == IF o.sell THEN o.quantity ELSE Mul(o.price, o.quantity)
        valBalance == m.wallets[wallet].balance[asset]
        m1 == Emit([m EXCEPT !.wallets[wallet].balance[asset] = valBalance],
                   OnBalanceChanged(wallet, asset, valBalance))
        valInOrder == Add(value, m1.wallets[wallet].inOrder[asset])
    IN  Emit([m1 EXCEPT !.wallets[wallet].inOrder[asset] = valInOrder],
             OnInOrderChanged(wallet, asset, valInOrder))

updateBalanceOnPlaced(m, o) ==
    LET wallet == o.owner
        asset == IF o.sell THEN base ELSE quote
        value == IF o.sell THEN o.quantity ELSE Mul(o.price, o.quantity)
        valBalance == Sub(m.wallets[wallet].balance[asset], value)
        m1 == Emit([m EXCEPT !.wallets[wallet].balance[asset] = valBalance],
                   OnBalanceChanged(wallet, asset, valBalance))
        valInOrder == Add(value, m1.wallets[wallet].inOrder[asset])
    IN  Emit([m1 EXCEPT !.wallets[wallet].inOrder[asset] = valInOrder],
             OnInOrderChanged(wallet, asset, valInOrder))

\* ------------------------------------------------------------------
\* PlaceOrder
\* ------------------------------------------------------------------
\* what the match loop leaves behind apart from the listener's record
Core(m) == [m EXCEPT !.events = <<>>, !.fills = <<>>, !.fees = <<>>]

\* compare with the bound excluded (a resting order at the limit is passed over)
compareStrict(o, n) ==
    IF Sign(o.price) = 0 THEN TRUE
    ELSE IF o.sell THEN Cmp(o.price, n) < 0
    ELSE Cmp(o.price, n) > 0

\* compare that lets a limit order through at any price
compareAlways(o, n) == TRUE

compare(o, n) ==
    IF Sign(o.price) = 0 THEN TRUE
    ELSE IF o.sell THEN Cmp(o.price, n) <= 0
    ELSE Cmp(o.price, n) >= 0

\* next with the iterators swapped: the worst opposite level first
nextWorst(m, o) == IF o.sell THEN minPrice(m, "bids") ELSE maxPrice(m, "asks")

next(m, o) == IF o.sell THEN maxPrice(m, "bids") ELSE minPrice(m, "asks")

\* fillVolume priced at the incoming order's limit
fillVolumeTakerPrice(c, maker, taker) ==
    IF c = -1
    THEN [Price |-> Mul(taker.quantity, taker.price), Quantity |-> taker.quantity]
    ELSE [Price |-> Mul(maker.quantity, taker.price), Quantity |-> maker.quantity]

\* fillVolume charging the whole resting order for a part of it
fillVolumeWholeMaker(c, maker, taker) ==
    IF c = -1
    THEN [Price |-> Mul(maker.quantity, maker.price), Quantity |-> taker.quantity]
    ELSE [Price |-> Mul(maker.quantity, maker.price), Quantity |-> maker.quantity]

\* the Volume of one fill; c is taker.Quantity().Cmp(maker.Quantity())
fillVolume(c, maker, taker) ==
    IF c = -1
    THEN [Price |-> Mul(taker.quantity, maker.price), Quantity |-> taker.quantity]
    ELSE [Price |-> Mul(maker.quantity, maker.price), Quantity |-> maker.quantity]

\* one pass through the body of the queue loop
matchStep(m, o, bestPriceQueue) ==
    LET makerEl == Head(m.queues[bestPriceQueue].orders)
        maker == m.els[makerEl]
        taker == o
        makerQty == maker.quantity
        takerQty == taker.quantity
        c == Cmp(taker.quantity, maker.quantity)
    IN
    Let(fillVolume(c, maker, taker), LAMBDA volume :
    Let(IF c = -1
        THEN queueUpdateQuantity(m, bestPriceQueue, makerEl,
                                 Sub(makerQty, takerQty))
        ELSE [pull(m, maker) EXCEPT
                !.els[makerEl].quantity = Sub(makerQty, makerQty)], LAMBDA m1 :
    Let([taker EXCEPT !.quantity =
           IF c = 1 THEN Sub(takerQty, makerQty) ELSE Sub(takerQty, takerQty)],
        LAMBDA taker1 :
    Let(Emit(Emit(m1,
          OrderEvent(IF c = -1 THEN "OnExistingOrderPartial"
                               ELSE "OnExistingOrderDone", maker, volume)),
          OrderEvent(IF c = 1 THEN "OnIncomingOrderPartial"
                              ELSE "OnIncomingOrderDone", taker1, volume)),
        LAMBDA m2 :
    Let(updateBalanceOnExchanged(m2, maker, volume, TRUE), LAMBDA m3 :
    Let(updateBalanceOnExchanged(m3, taker1, volume, FALSE), LAMBDA m4 :
        [m |-> [m4 EXCEPT !.fills = Append(@,
                  [el |-> makerEl, maker |-> maker, level |-> bestPriceQueue,
                   takerQty |-> takerQty, takerLeft |-> taker1.quantity,
                   makerLeft |-> m1.els[makerEl].quantity, volume |-> volume,
                   before |-> m.wallets, between |-> m3.wallets,
                   after |-> m4.wallets])],
         o |-> taker1]))))))

\* Queue processing; hung when a pass changes nothing, so that the loop
\* repeats it forever
RECURSIVE queueLoop(_, _, _)
queueLoop(m, o, bestPriceQueue) ==
    IF Len(m.queues[bestPriceQueue].orders) > 0 /\ Sign(o.quantity) > 0
    THEN Let(matchStep(m, o, bestPriceQueue), LAMBDA r :
             IF Core(r.m) = Core(m) /\ r.o = o
             THEN [m |-> r.m, o |-> r.o, hung |-> TRUE]
             ELSE queueLoop(r.m, r.o, bestPriceQueue))
    ELSE [m |-> m, o |-> o, hung |-> FALSE]

\* Side processing
RECURSIVE sideLoop(_, _)
sideLoop(m, o) ==
    Let(next(m, o), LAMBDA bestPriceQueue :
        IF bestPriceQueue # NIL
           /\ Sign(o.quantity) > 0
           /\ compare(o, m.queues[bestPriceQueue].price)
        THEN Let(queueLoop(m, o, bestPriceQueue), LAMBDA r :
                 IF r.hung THEN r
                 ELSE IF Core(r.m) = Core(m) /\ r.o = o
                 THEN [m |-> r.m, o |-> r.o, hung |-> TRUE]
                 ELSE sideLoop(r.m, r.o))
        ELSE [m |-> m, o |-> o, hung |-> FALSE])

PlaceOrder(m, o) ==
    LET m0 == IF m.feeHandler = NilFeeHandler
              THEN [m EXCEPT !.feeHandler = emptyFeeHandlerValue]
              ELSE m
    IN  IF o.id \in DOMAIN m0.orders
        THEN [m |-> m0, err |-> ErrOrderExists, o |-> o, hung |-> FALSE]
        ELSE
        Let(CanPlace(m0, o.owner, o.sell, o.quantity, o.price), LAMBDA err :
            IF err # NoError
            THEN [m |-> m0, err |-> err, o |-> o, hung |-> FALSE]
            ELSE
            Let(sideLoop(m0, o), LAMBDA w :
                IF w.hung
                THEN [m |-> w.m, err |-> NoError, o |-> w.o, hung |-> TRUE]
                ELSE IF Sign(w.o.quantity) > 0
                THEN Let(push(w.m, w.o), LAMBDA m1 :
                     Let(Emit(m1, [type |-> "OnIncomingOrderPlaced",
                                   id |-> w.o.id]), LAMBDA m2 :
                         [m |-> updateBalanceOnPlaced(m2, w.o),
                          err |-> NoError, o |-> w.o, hung |-> FALSE]))
                ELSE [m |-> w.m, err |-> NoError, o |-> w.o, hung |-> FALSE]))

\* ------------------------------------------------------------------
\* ReplaceOrder
\* ------------------------------------------------------------------
\* the reserve of an order: what its owner has frozen for it
replaceValue(o) == IF o.sell THEN o.quantity ELSE Mul(o.price, o.quantity)

replaceAsset(o) == IF o.sell THEN base ELSE quote

\* replaceValidate that looks for the level on the other side of the book
replaceValidateOtherSide(m, old, n) ==
    IF old.id \notin DOMAIN m.orders THEN ErrOrderNotFound
    ELSE
    LET o == m.els[m.orders[old.id]]
        newBalance == Add(Sub(replaceValue(o), replaceValue([n EXCEPT !.sell = o.sell])),
                          m.wallets[o.owner].balance[replaceAsset(o)])
    IN  IF o.owner # n.owner THEN ErrInvalidOrder
        ELSE IF o.sell # n.sell THEN ErrInvalidOrder
        ELSE IF Cmp(o.price, n.price) # 0 THEN ErrInvalidOrder
        ELSE IF Sign(n.quantity) <= 0 THEN ErrInvalidQuantity
        ELSE IF Sign(newBalance) < 0 THEN ErrInsufficientFunds
        ELSE IF Hash(n.price) \notin DOMAIN m[SideOf(~o.sell)].prices
        THEN ErrInvalidPrice
        ELSE NoError

\* the validation gates, o being the resting order found under old's id
replaceValidate(m, old, n) ==
    IF old.id \notin DOMAIN m.orders THEN ErrOrderNotFound
    ELSE
    LET o == m.els[m.orders[old.id]]
        newBalance == Add(Sub(replaceValue(o), replaceValue([n EXCEPT !.sell = o.sell])),
                          m.wallets[o.owner].balance[replaceAsset(o)])
    IN  IF o.owner # n.owner THEN ErrInvalidOrder
        ELSE IF o.sell # n.sell THEN ErrInvalidOrder
        ELSE IF Cmp(o.price, n.price) # 0 THEN ErrInvalidOrder
        ELSE IF Sign(n.quantity) <= 0 THEN ErrInvalidQuantity
        ELSE IF Sign(newBalance) < 0 THEN ErrInsufficientFunds
        ELSE IF Hash(n.price) \notin DOMAIN m[SideOf(o.sell)].prices
        THEN ErrInvalidPrice
        ELSE NoError

\* the effect once every gate is passed
replaceApply(m, old, n) ==
    LET orderEl == m.orders[old.id]
        o == m.els[orderEl]
        wallet == o.owner
        asset == replaceAsset(o)
        oldValue == replaceValue(o)
        newValue == replaceValue([n EXCEPT !.sell = o.sell])
        newBalance == Add(Sub(oldValue, newValue), m.wallets[wallet].balance[asset])
        queue == m[SideOf(o.sell)].prices[Hash(n.price)]
        newInOrder == Add(Sub(newValue, oldValue), m.wallets[wallet].inOrder[asset])
        m1 == [m EXCEPT !.els[orderEl] = n]
        m2 == [m1 EXCEPT !.orders = MapPut(MapDel(@, o.id), n.id, orderEl)]
        m3 == [m2 EXCEPT !.queues[queue].volume =
                            Add(Sub(n.quantity, o.quantity), @)]
        m4 == Emit([m3 EXCEPT !.wallets[wallet].balance[asset] = newBalance],
                   OnBalanceChanged(wallet, asset, newBalance))
    IN  Emit([m4 EXCEPT !.wallets[wallet].inOrder[asset] = newInOrder],
             OnInOrderChanged(wallet, asset, newInOrder))

\* ReplaceOrder that writes the replacement before the funds gate
ReplaceOrderEager(m, old, n) ==
    Let(replaceValidate(m, old, n), LAMBDA err :
        [m |-> IF err \in {NoError, ErrInsufficientFunds}
               THEN replaceApply(m, old, n) ELSE m,
         err |-> err])

\* ReplaceOrder that takes the order out and queues the replacement anew
ReplaceOrderRequeue(m, old, n) ==
    Let(replaceValidate(m, old, n), LAMBDA err :
        LET e == m.orders[old.id]
            q == m[SideOf(m.els[e].sell)].prices[Hash(n.price)]
        IN  [m |-> IF err = NoError
                   THEN [replaceApply(m, old, n) EXCEPT !.queues[q].orders =
                           Append(SelectSeq(@, LAMBDA x : x # e), e)]
                   ELSE m,
             err |-> err])

\* ReplaceOrder that leaves the cached volume of the level as it was
ReplaceOrderStaleVolume(m, old, n) ==
    Let(replaceValidate(m, old, n), LAMBDA err :
        [m |-> IF err = NoError
               THEN [replaceApply(m, old, n) EXCEPT !.queues = m.queues]
               ELSE m,
         err |-> err])

ReplaceOrder(m, old, n) ==
    Let(replaceValidate(m, old, n), LAMBDA err :
        [m |-> IF err = NoError THEN replaceApply(m, old, n) ELSE m,
         err |-> err])

\* ------------------------------------------------------------------
\* CancelOrder
\* ------------------------------------------------------------------
\* CancelOrder that returns when the lookup does not have the order
CancelOrderKnown(m, o) ==
    IF o.id \notin DOMAIN m.orders THEN m
    ELSE
    Let(pull(m, o), LAMBDA m0 :
        LET wallet == o.owner
            value == IF o.sell THEN o.quantity ELSE Mul(o.quantity, o.price)
            asset == IF o.sell THEN base ELSE quote
            valBalance == Add(value, m0.wallets[wallet].balance[asset])
            m1 == Emit([m0 EXCEPT !.wallets[wallet].balance[asset] = valBalance],
                       OnBalanceChanged(wallet, asset, valBalance))
            valInOrder == Sub(m1.wallets[wallet].inOrder[asset], value)
            m2 == Emit([m1 EXCEPT !.wallets[wallet].inOrder[asset] = valInOrder],
                       OnInOrderChanged(wallet, asset, valInOrder))
        IN  Emit(m2, [type |-> "OnExistingOrderCanceled", id |-> o.id]))

CancelOrder(m, o) ==
    Let(pull(m, o), LAMBDA m0 :
        LET wallet == o.owner
            value == IF o.sell THEN o.quantity ELSE Mul(o.quantity, o.price)
            asset == IF o.sell THEN base ELSE quote
            valBalance == Add(value, m0.wallets[wallet].balance[asset])
            m1 == Emit([m0 EXCEPT !.wallets[wallet].balance[asset] = valBalance],
                       OnBalanceChanged(wallet, asset, valBalance))
            valInOrder == Sub(m1.wallets[wallet].inOrder[asset], value)
            m2 == Emit([m1 EXCEPT !.wallets[wallet].inOrder[asset] = valInOrder],
                       OnInOrderChanged(wallet, asset, valInOrder))
        IN  Emit(m2, [type |-> "OnExistingOrderCanceled", id |-> o.id]))

\* ------------------------------------------------------------------
\* PushOrder, SetFeeHandler
\* ------------------------------------------------------------------
\* PushOrder that hands the order to PlaceOrder
PushOrderPlaced(m, o) == PlaceOrder(m, o).m

PushOrder(m, o) == push(m, o)

SetFeeHandler(m, h) == [m EXCEPT !.feeHandler = h]

\* ------------------------------------------------------------------
\* State machine: one engine, its callers, the wallets of the host
\* ------------------------------------------------------------------
VARIABLES orders, asks, bids, queues, els, wallets, feeHandler,
          pc, ret, calls, snap, held, mutex, at

vars == <<orders, asks, bids, queues, els, wallets, feeHandler,
          pc, ret, calls, snap, held, mutex, at>>

\* the goroutines that call the engine; `mutex` is the set of those holding
\* e.m (none or one), `at` the public method each one is in, or "out"
Threads == {"t1", "t2"}

NoOrder == [id |-> "", owner |-> NilWallet, sell |-> FALSE,
            price |-> Nil, quantity |-> Nil]

\* ret: the last call as its caller and its listener saw it.  o, n are the
\* arguments, final the incoming order as the call left it, el the list
\* element holding the Order object handed to CancelOrder, undoes whether
\* that object is the one the preceding call placed
NoCall == [op |-> "none", o |-> NoOrder, n |-> NoOrder, err |-> NoError,
           final |-> NoOrder, events |-> <<>>, fills |-> <<>>, fees |-> <<>>,
           el |-> NIL, undoes |-> FALSE, out |-> <<>>]

\* snap: what a PlaceOrder that rested its order without a fill found
\* before it ran, kept until the next call
NoSnap == [el |-> NIL, wallets |-> EmptyMap, lookup |-> EmptyMap,
           asksN |-> 0, bidsN |-> 0]

Machine == [orders |-> orders, asks |-> asks, bids |-> bids,
            queues |-> queues, els |-> els, wallets |-> wallets,
            feeHandler |-> feeHandler, events |-> <<>>, fills |-> <<>>,
            fees |-> <<>>]

\* queues and list elements no pointer leads to any more are garbage
Referenced(m) ==
    LET qs == {m.asks.prices[h] : h \in DOMAIN m.asks.prices}
              \cup {m.bids.prices[h] : h \in DOMAIN m.bids.prices}
              \cup {m.asks.priceTree.nodes[x].Value : x \in DOMAIN m.asks.priceTree.nodes}
              \cup {m.bids.priceTree.nodes[x].Value : x \in DOMAIN m.bids.priceTree.nodes}
        es == {m.orders[k] : k \in DOMAIN m.orders}
              \cup UNION {{m.queues[q].orders[i] : i \in 1..Len(m.queues[q].orders)}
                          : q \in qs}
    IN  [qs |-> qs, es |-> es]

Install(m) ==
    /\ orders' = m.orders
    /\ asks' = m.asks
    /\ bids' = m.bids
    /\ queues' = [q \in Referenced(m).qs |-> m.queues[q]]
    /\ els' = [e \in Referenced(m).es |-> m.els[e]]
    /\ wallets' = m.wallets
    /\ feeHandler' = m.feeHandler

\* Order ids are opaque strings the engine only compares for equality, so
\* ids the engine holds nowhere are interchangeable: a caller's id is one
\* the engine knows or the first of IdSeq it does not
KnownIds == {els[e].id : e \in DOMAIN els} \cup DOMAIN orders

UsableIds ==
    KnownIds \cup
    {IdSeq[i] : i \in {j \in 1..Len(IdSeq) :
                        /\ IdSeq[j] \notin KnownIds
                        /\ \A k \in 1..(j - 1) : IdSeq[k] \in KnownIds}}

\* orders a caller may place: limit and market orders of either wallet
ValidOrders ==
    [id : UsableIds, owner : Wallets, sell : BOOLEAN,
     price : 0..MaxPrice, quantity : 1..MaxQty]

\* orders with absent or out-of-range fields as well
AnyOrders ==
    [id : UsableIds, owner : Wallets \cup {NilWallet}, sell : BOOLEAN,
     price : {Nil, -1, 0, 1, MaxPrice}, quantity : {Nil, -1, 0, 1, MaxQty}]

\* replacements that keep owner, side and price of the resting order
ValidReplacements ==
    {<<k, [els[orders[k]] EXCEPT !.id = i, !.quantity = q]>> :
        k \in DOMAIN orders, i \in UsableIds, q \in 1..MaxQty}

AnyReplacements ==
    UsableIds \X [id : UsableIds, owner : Wallets, sell : BOOLEAN,
                  price : 1..MaxPrice, quantity : 0..MaxQty]

\* arguments of CanPlace
CanPlaceArgs ==
    [id : {""}, owner : Wallets \cup {NilWallet}, sell : BOOLEAN,
     price : {Nil, -1, 0, 1, MaxPrice}, quantity : {Nil, -1, 0, 1, MaxQty}]

\* the host funds w1 with the base asset and w2 with the quote asset
InitBalance(w, a) ==
    IF w = "w1" /\ a = base THEN InitBase
    ELSE IF w = "w2" /\ a = quote THEN InitQuote
    ELSE 0

Init ==
    /\ orders = EmptyMap
    /\ asks = newSide
    /\ bids = newSide
    /\ queues = EmptyMap
    /\ els = EmptyMap
    /\ wallets = [w \in Wallets |->
                    [balance |-> [a \in Assets |-> InitBalance(w, a)],
                     inOrder |-> [a \in Assets |-> 0]]]
    /\ feeHandler = NilFeeHandler
    /\ pc = "idle"
    /\ ret = NoCall
    /\ calls = 0
    /\ snap = NoSnap
    /\ held = {}
    /\ mutex = {}
    /\ at = [t \in Threads |-> "out"]

\* a run makes at most max calls
Enter(max) ==
    /\ pc = "idle"
    /\ calls < max
    /\ calls' = calls + 1
    /\ held' = held
    /\ mutex' = mutex
    /\ at' = at

PlaceOrderCall(o) ==
    \E r \in {PlaceOrder(Machine, o)} :
    LET rested == r.err = NoError /\ ~r.hung /\ Sign(r.o.quantity) > 0
    IN  /\ Install(r.m)
        /\ pc' = IF r.hung THEN "hung" ELSE "returned"
        /\ ret' = [NoCall EXCEPT !.op = "PlaceOrder", !.o = o, !.err = r.err,
                                 !.final = r.o, !.events = r.m.events,
                                 !.fills = r.m.fills, !.fees = r.m.fees]
        /\ snap' = IF rested /\ r.m.fills = <<>>
                   THEN [el |-> r.m.orders[o.id], wallets |-> wallets,
                         lookup |-> orders,
                         asksN |-> asks.numOrders, bidsN |-> bids.numOrders]
                   ELSE NoSnap

ReplaceOrderCall(id, n) ==
    \E r \in {ReplaceOrder(Machine, [NoOrder EXCEPT !.id = id], n)} :
    LET o == [NoOrder EXCEPT !.id = id]
    IN  /\ Install(r.m)
        /\ pc' = "returned"
        /\ ret' = [NoCall EXCEPT !.op = "ReplaceOrder", !.o = o, !.n = n,
                                 !.err = r.err, !.events = r.m.events]
        /\ snap' = NoSnap

\* the caller hands in the Order object that list element e holds
CancelOrderCall(e) ==
    \E m \in {CancelOrder(Machine, els[e])} :
        /\ Install(m)
        /\ pc' = "returned"
        /\ ret' = [NoCall EXCEPT !.op = "CancelOrder", !.o = els[e],
                                 !.events = m.events, !.el = e,
                                 !.undoes = (snap.el = e)]
        /\ snap' = IF snap.el = e THEN snap ELSE NoSnap

CanPlaceCall(a) ==
    /\ pc' = "returned"
    /\ ret' = [NoCall EXCEPT !.op = "CanPlace", !.o = a,
                 !.err = CanPlace(Machine, a.owner, a.sell, a.quantity, a.price)]
    /\ snap' = NoSnap
    /\ UNCHANGED <<orders, asks, bids, queues, els, wallets, feeHandler>>

CallPlaceOrder == Enter(MaxCalls) /\ \E o \in ValidOrders : PlaceOrderCall(o)

CallReplaceOrder ==
    Enter(MaxCalls) /\ \E x \in ValidReplacements : ReplaceOrderCall(x[1], x[2])

CallCancelOrder == Enter(MaxCalls) /\ \E e \in DOMAIN els : CancelOrderCall(e)

\* the caller has its result and the listener its events
Return ==
    /\ pc = "returned"
    /\ pc' = "idle"
    /\ ret' = NoCall
    /\ snap' = IF ret.op = "PlaceOrder" THEN snap ELSE NoSnap
    /\ UNCHANGED <<orders, asks, bids, queues, els, wallets, feeHandler,
                   calls, held, mutex, at>>

Next ==
    \/ CallPlaceOrder
    \/ CallReplaceOrder
    \/ CallCancelOrder
    \/ Return

Spec == Init /\ [][Next]_vars

\* the same engine driven also with malformed and mismatching arguments
RejectPlaceOrder == Enter(MaxRejectCalls) /\ \E o \in AnyOrders : PlaceOrderCall(o)

SetupPlaceOrder ==
    Enter(MaxRejectCalls - 1) /\ \E o \in ValidOrders : PlaceOrderCall(o)

RejectReplaceOrder ==
    Enter(MaxRejectCalls) /\ \E x \in AnyReplacements : ReplaceOrderCall(x[1], x[2])

RejectCanPlace == Enter(MaxRejectCalls) /\ \E a \in CanPlaceArgs : CanPlaceCall(a)

NextReject ==
    \/ SetupPlaceOrder
    \/ RejectPlaceOrder
    \/ RejectReplaceOrder
    \/ RejectCanPlace
    \/ Return

SpecReject == Init /\ [][NextReject]_vars

\* the elements of the queues of the book
SeqRange(f) == {f[i] : i \in 1..Len(f)}

SideQueues(s) == {s.prices[h] : h \in DOMAIN s.prices}

RestingEls(s) == UNION {SeqRange(queues[q].orders) : q \in SideQueues(s)}

AllResting == RestingEls(asks) \cup RestingEls(bids)

\* the well-formed calls again, in longer runs, with CanPlace among them
ProbeArgs ==
    [id : {""}, owner : Wallets, sell : BOOLEAN,
     price : 0..MaxPrice, quantity : 1..MaxQty]

DeepPlaceOrder == Enter(MaxDeepCalls) /\ \E o \in ValidOrders : PlaceOrderCall(o)

DeepReplaceOrder ==
    Enter(MaxDeepCalls) /\ \E x \in ValidReplacements : ReplaceOrderCall(x[1], x[2])

\* the caller replaces an order that rests in a queue and that the lookup
\* does not lead to, keeping its id
DeepReplaceLost ==
    /\ Enter(MaxDeepCalls)
    /\ \E e \in {x \in AllResting : els[x].id \notin DOMAIN orders
                                     \/ orders[els[x].id] # x} :
         \E q \in 1..MaxQty :
            ReplaceOrderCall(els[e].id, [els[e] EXCEPT !.quantity = q])

DeepCancelOrder == Enter(MaxDeepCalls) /\ \E e \in DOMAIN els : CancelOrderCall(e)

DeepCanPlace == Enter(MaxDeepCalls) /\ \E a \in ProbeArgs : CanPlaceCall(a)

\* FindOrder reads the lookup under the lock; it is asked between the calls
DeepFindOrder ==
    /\ pc = "idle"
    /\ \E id \in KnownIds : \E r \in {FindOrder(Machine, id)} :
          /\ pc' = "returned"
          /\ ret' = [NoCall EXCEPT !.op = "FindOrder", !.o = [NoOrder EXCEPT !.id = id],
                                   !.err = r.err, !.out = r.value]
          /\ snap' = NoSnap
    /\ UNCHANGED <<orders, asks, bids, queues, els, wallets, feeHandler,
                   calls, held, mutex, at>>

NextDeep ==
    \/ DeepPlaceOrder
    \/ DeepReplaceOrder
    \/ DeepReplaceLost
    \/ DeepCancelOrder
    \/ DeepCanPlace
    \/ DeepFindOrder
    \/ Return

SpecDeep == Init /\ [][NextDeep]_vars

\* the host of the engine: it may build the engine with its own fee
\* handler and restore orders with PushOrder
InitHost ==
    /\ orders = EmptyMap
    /\ asks = newSide
    /\ bids = newSide
    /\ queues = EmptyMap
    /\ els = EmptyMap
    /\ wallets = [w \in Wallets |->
                    [balance |-> [a \in Assets |-> InitBalance(w, a)],
                     inOrder |-> [a \in Assets |-> 0]]]
    /\ feeHandler \in {NilFeeHandler, hostFeeHandlerValue}
    /\ pc = "idle"
    /\ ret = NoCall
    /\ calls = 0
    /\ snap = NoSnap
    /\ held = {}
    /\ mutex = {}
    /\ at = [t \in Threads |-> "out"]

PushOrderCall(o) ==
    \E m \in {PushOrder(Machine, o)} :
        /\ Install(m)
        /\ pc' = "returned"
        /\ ret' = [NoCall EXCEPT !.op = "PushOrder", !.o = o,
                                 !.events = m.events]
        /\ snap' = NoSnap

\* orders the host restores: limit orders of either wallet for the largest
\* quantity, funded or not, under a new id or one the engine knows
PushOrders ==
    [id : UsableIds, owner : Wallets, sell : BOOLEAN,
     price : 1..MaxPrice, quantity : {MaxQty}]

NextHost ==
    \/ Enter(MaxHostCalls) /\ \E o \in PushOrders : PushOrderCall(o)
    \/ Enter(MaxHostCalls) /\ \E o \in ValidOrders : PlaceOrderCall(o)
    \/ Enter(MaxHostCalls) /\ \E e \in DOMAIN els : CancelOrderCall(e)
    \/ Return

SpecHost == InitHost /\ [][NextHost]_vars

\* a caller that cancels with Order objects of its own, whether or not the
\* book still has them
CancelHeldCall(o) ==
    \E m \in {CancelOrder(Machine, o)} :
        /\ Install(m)
        /\ pc' = "returned"
        /\ ret' = [NoCall EXCEPT !.op = "CancelOrder", !.o = o,
                                 !.events = m.events]
        /\ snap' = NoSnap

\* Order objects the last call took out of the book: the order a
\* CancelOrder was given, and the resting orders a PlaceOrder filled
Released ==
    IF ret.op = "CancelOrder" /\ ret.el # NIL
    THEN {[o |-> ret.o, how |-> "cancelled"]}
    ELSE IF ret.op = "PlaceOrder"
    THEN {[o |-> [ret.fills[i].maker EXCEPT !.quantity = ret.fills[i].makerLeft],
           how |-> "filled"] :
            i \in {j \in 1..Len(ret.fills) : ret.fills[j].makerLeft = 0}}
    ELSE {}

\* orders the engine has never seen
NeverPlaced ==
    [id : UsableIds \ KnownIds, owner : Wallets, sell : BOOLEAN,
     price : {MaxPrice}, quantity : {MaxQty}]

\* the caller has its result and keeps the objects that left the book
ReturnHeld ==
    /\ pc = "returned"
    /\ pc' = "idle"
    /\ ret' = NoCall
    /\ snap' = NoSnap
    /\ held' = Released
    /\ UNCHANGED <<orders, asks, bids, queues, els, wallets, feeHandler, calls,
                   mutex, at>>

NextHeld ==
    \/ Enter(MaxHeldCalls) /\ \E o \in ValidOrders : PlaceOrderCall(o)
    \/ Enter(MaxHeldCalls) /\ \E e \in DOMAIN els : CancelOrderCall(e)
    \/ Enter(MaxHeldCalls)
       /\ \E o \in {h.o : h \in held} \cup NeverPlaced : CancelHeldCall(o)
    \/ ReturnHeld

SpecHeld == Init /\ [][NextHeld]_vars

\* ------------------------------------------------------------------
\* Callers on several goroutines
\* ------------------------------------------------------------------
\* the public methods that begin with e.m.Lock(): those that write
Writers == {"PlaceOrder", "ReplaceOrder", "CancelOrder", "PushOrder",
            "SetFeeHandler"}

\* and those that only read
Readers == {"Quantity", "Price", "Spread", "FindOrder", "Orders", "OrderBook"}

\* Lock that does not wait for the mutex
LockAtOnce(t, op) ==
    /\ calls < MaxThreadCalls
    /\ at[t] = "out"
    /\ op = "ReplaceOrder" => ValidReplacements # {}
    /\ op = "CancelOrder" => DOMAIN els # {}
    /\ mutex' = {t}
    /\ at' = [at EXCEPT ![t] = op]
    /\ calls' = calls + 1
    /\ UNCHANGED <<orders, asks, bids, queues, els, wallets, feeHandler,
                   pc, ret, snap, held>>

\* e.m.Lock() at the head of method op: t waits until the mutex is free
Lock(t, op) ==
    /\ calls < MaxThreadCalls
    /\ at[t] = "out"
    /\ mutex = {}
    /\ op = "ReplaceOrder" => ValidReplacements # {}
    /\ op = "CancelOrder" => DOMAIN els # {}
    /\ mutex' = {t}
    /\ at' = [at EXCEPT ![t] = op]
    /\ calls' = calls + 1
    /\ UNCHANGED <<orders, asks, bids, queues, els, wallets, feeHandler,
                   pc, ret, snap, held>>

\* the body of the method t is in, and the Unlock that ends it
Locked(t) ==
    /\ mutex = {t}
    /\ \/ at[t] = "PlaceOrder" /\ \E o \in ValidOrders : PlaceOrderCall(o)
       \/ at[t] = "ReplaceOrder"
          /\ \E x \in ValidReplacements : ReplaceOrderCall(x[1], x[2])
       \/ at[t] = "CancelOrder" /\ \E e \in DOMAIN els : CancelOrderCall(e)
       \/ at[t] = "PushOrder" /\ \E o \in PushOrders : PushOrderCall(o)
       \/ /\ at[t] = "SetFeeHandler"
          /\ \E h \in {NilFeeHandler, hostFeeHandlerValue} :
                Install(SetFeeHandler(Machine, h))
          /\ pc' = "returned"
          /\ ret' = [NoCall EXCEPT !.op = at[t]]
          /\ snap' = NoSnap
       \/ /\ at[t] \in Readers
          /\ pc' = "returned"
          /\ ret' = [NoCall EXCEPT !.op = at[t]]
          /\ snap' = NoSnap
          /\ UNCHANGED <<orders, asks, bids, queues, els, wallets, feeHandler>>
    /\ mutex' = {}
    /\ at' = [at EXCEPT ![t] = "out"]
    /\ UNCHANGED <<calls, held>>

\* CanPlace begins without e.m.Lock()
CanPlaceEnter(t) ==
    /\ calls < MaxThreadCalls
    /\ at[t] = "out"
    /\ at' = [at EXCEPT ![t] = "CanPlace"]
    /\ calls' = calls + 1
    /\ UNCHANGED <<orders, asks, bids, queues, els, wallets, feeHandler,
                   pc, ret, snap, held, mutex>>

\* what CanPlace can end with when e.price walks the book while a writer
\* is in its critical section: a data race, any result or a fault
RacingResults ==
    {NoError, ErrInsufficientQuantity, ErrInsufficientFunds, "fault"}

\* the body of CanPlace; for a market price it reads the book through
\* e.price
CanPlaceReturn(t) ==
    /\ at[t] = "CanPlace"
    /\ \E a \in ProbeArgs :
         \E r \in (IF a.price = 0
                       /\ \E u \in mutex : at[u] \in Writers \ {"SetFeeHandler"}
                    THEN RacingResults
                    ELSE {CanPlace(Machine, a.owner, a.sell, a.quantity, a.price)}) :
            ret' = [NoCall EXCEPT !.op = "CanPlace", !.o = a, !.err = r]
    /\ pc' = "returned"
    /\ snap' = NoSnap
    /\ at' = [at EXCEPT ![t] = "out"]
    /\ UNCHANGED <<orders, asks, bids, queues, els, wallets, feeHandler,
                   calls, held, mutex>>

NextThreads ==
    \E t \in Threads :
        \/ \E op \in Writers \cup Readers : Lock(t, op)
        \/ Locked(t)
        \/ CanPlaceEnter(t)
        \/ CanPlaceReturn(t)

SpecThreads == Init /\ [][NextThreads]_vars

\* ------------------------------------------------------------------
\* The queries: Price, Quantity, Spread and OrderBook between the calls
\* that change the book.  A query takes the lock, reads and returns.
\* ------------------------------------------------------------------
Asked(op, arg, err, out) ==
    /\ pc = "idle"
    /\ pc' = "returned"
    /\ ret' = [NoCall EXCEPT !.op = op, !.o = arg, !.err = err, !.out = out]
    /\ snap' = NoSnap
    /\ UNCHANGED <<orders, asks, bids, queues, els, wallets, feeHandler,
                   calls, held, mutex, at>>

PriceCall(sell, q) ==
    \E r \in {price(Machine, sell, q)} :
        Asked("Price", [NoOrder EXCEPT !.sell = sell, !.quantity = q],
              r.err, r.value)

NextQuery ==
    \/ Enter(MaxQueryCalls) /\ \E o \in ValidOrders : PlaceOrderCall(o)
    \/ Enter(MaxQueryCalls)
          /\ \E x \in ValidReplacements : ReplaceOrderCall(x[1], x[2])
    \/ Enter(MaxQueryCalls) /\ \E e \in DOMAIN els : CancelOrderCall(e)
    \/ \E sell \in BOOLEAN, q \in 1..(MaxQty + 1) : PriceCall(sell, q)
    \/ \E sell \in BOOLEAN, priceLim \in {Nil} \cup (1..MaxPrice) :
          Asked("Quantity", [NoOrder EXCEPT !.sell = sell, !.price = priceLim],
                NoError, quantity(Machine, sell, priceLim))
    \/ Asked("Spread", NoOrder, NoError, Spread(Machine))
    \/ Asked("OrderBook", NoOrder, NoError, OrderBook(Machine))
    \/ Return

SpecQuery == Init /\ [][NextQuery]_vars

\* ------------------------------------------------------------------
\* The price index alone: the tree of the asks driven with put and remove
\* of any key in any order, as the tests of the tree do.  The least key is
\* put with either of two values, so that a put may overwrite.
\* ------------------------------------------------------------------
TreeCall(op, key, value, t) ==
    /\ asks' = [asks EXCEPT !.priceTree = t]
    /\ ret' = [NoCall EXCEPT !.op = op,
                 !.o = [NoOrder EXCEPT !.price = key, !.quantity = value]]
    /\ UNCHANGED <<orders, bids, queues, els, wallets, feeHandler, pc, calls,
                   snap, held, mutex, at>>

NextTree ==
    \/ \E key \in 1..MaxKey, value \in 1..2 :
          /\ value = 2 => key = 1
          /\ TreeCall("put", key, value, put(asks.priceTree, key, value))
    \/ \E key \in 1..MaxKey :
          TreeCall("remove", key, Nil, remove(asks.priceTree, key))

SpecTree == Init /\ [][NextTree]_vars

\* ------------------------------------------------------------------
\* Observations of the book, taken from the price-level maps and the
\* queues alone
\* ------------------------------------------------------------------
Opposite(sell) == IF sell THEN bids ELSE asks

\* the elements of the levels qs, best level first, each level front to back
RECURSIVE ByPriority(_, _)
ByPriority(qs, highFirst) ==
    IF qs = {} THEN <<>>
    ELSE LET q == CHOOSE x \in qs : \A y \in qs :
                     IF highFirst THEN queues[x].price >= queues[y].price
                                  ELSE queues[x].price <= queues[y].price
         IN  queues[q].orders \o ByPriority(qs \ {q}, highFirst)

\* what an incoming order of the given side meets, in price-time order
Priority(sell) == ByPriority(SideQueues(Opposite(sell)), sell)

RECURSIVE SumQuantity(_)
SumQuantity(es) ==
    IF es = {} THEN 0
    ELSE LET e == CHOOSE x \in es : TRUE
         IN  els[e].quantity + SumQuantity(es \ {e})

\* what it costs to take `left` from the orders pri[i..] in turn
RECURSIVE CostOf(_, _, _)
CostOf(pri, i, left) ==
    IF left <= 0 \/ i > Len(pri) THEN 0
    ELSE LET have == els[pri[i]].quantity
             take == IF left < have THEN left ELSE have
         IN  take * els[pri[i]].price + CostOf(pri, i + 1, left - take)

WithinLimit(o, p) == IF o.sell THEN p >= o.price ELSE p <= o.price

EventsOf(types) == SelectSeq(ret.events, LAMBDA ev : ev.type \in types)

PlaceOrderAccepted ==
    pc = "returned" /\ ret.op = "PlaceOrder" /\ ret.err = NoError

\* ------------------------------------------------------------------
\* Properties
\* ------------------------------------------------------------------

\* C1: starting from an empty book, in every state the calls lead to,
\* every resting bid price is strictly below every resting ask price (so
\* the highest bid is below the lowest ask whenever both sides hold orders).
NeverCrossedAtRest ==
    \A b \in RestingEls(bids), a \in RestingEls(asks) :
        els[b].price < els[a].price

\* an incoming order matched, rested its remainder, and both sides are populated
CrossingOrderRested ==
    /\ PlaceOrderAccepted
    /\ ret.fills # <<>>
    /\ Sign(ret.final.quantity) > 0
    /\ RestingEls(asks) # {}
    /\ RestingEls(bids) # {}

\* C2: within one PlaceOrder the fills go to the resting orders in
\* price-time order: the i-th fill goes to the i-th order of the opposite
\* side counted best level first and front to back inside a level, every
\* filled order but the last has left the book, and an order that rests
\* enters its level behind every order already there.
PriceTimePriority ==
    [][ (pc = "idle" /\ pc' = "returned" /\ ret'.op = "PlaceOrder"
            /\ ret'.err = NoError) =>
        LET f == ret'.fills
            pri == Priority(ret'.o.sell)
        IN  /\ Len(f) <= Len(pri)
            /\ \A i \in 1..Len(f) : f[i].el = pri[i]
            /\ \A i \in 1..Len(f) : i < Len(f) => f[i].el \notin AllResting'
            /\ Sign(ret'.final.quantity) > 0 =>
                 /\ ret'.o.id \in DOMAIN orders'
                 /\ orders'[ret'.o.id] \notin DOMAIN els
                 /\ \E q \in DOMAIN queues' :
                      /\ queues'[q].price = ret'.o.price
                      /\ Len(queues'[q].orders) > 0
                      /\ queues'[q].orders[Len(queues'[q].orders)] = orders'[ret'.o.id]
      ]_vars

\* an incoming order filled against two resting orders at different prices
TwoLevelsFilled ==
    /\ PlaceOrderAccepted
    /\ Len(ret.fills) >= 2
    /\ ret.fills[1].maker.price # ret.fills[2].maker.price

\* C3: every fill reports Volume.Quantity = the quantity executed (what
\* the taker and the maker each lose) and Volume.Price = that quantity
\* times the maker's price, in the event of the maker and of the taker.
FillAtMakerPrice ==
    ret.op = "PlaceOrder" =>
        LET existing == EventsOf({"OnExistingOrderDone", "OnExistingOrderPartial"})
            incoming == EventsOf({"OnIncomingOrderDone", "OnIncomingOrderPartial"})
        IN  /\ Len(existing) = Len(ret.fills)
            /\ Len(incoming) = Len(ret.fills)
            /\ \A i \in 1..Len(ret.fills) :
                 LET f == ret.fills[i]
                 IN  /\ f.volume.Quantity = f.takerQty - f.takerLeft
                     /\ f.volume.Quantity = f.maker.quantity - f.makerLeft
                     /\ f.volume.Price = f.volume.Quantity * f.maker.price
                     /\ existing[i].volume = f.volume
                     /\ incoming[i].volume = f.volume

\* a limit order filled against a resting order priced otherwise than its limit
FilledAwayFromLimit ==
    /\ PlaceOrderAccepted
    /\ Sign(ret.o.price) > 0
    /\ \E i \in 1..Len(ret.fills) : ret.fills[i].maker.price # ret.o.price

\* C4: a limit order fills only against resting orders priced within its
\* limit, and when quantity remains the remainder rests while every order
\* left on the opposite side is priced outside the limit.
LimitRespected ==
    (PlaceOrderAccepted /\ Sign(ret.o.price) > 0) =>
        /\ \A i \in 1..Len(ret.fills) :
             WithinLimit(ret.o, ret.fills[i].maker.price)
        /\ Sign(ret.final.quantity) > 0 =>
             /\ \A e \in RestingEls(Opposite(ret.o.sell)) :
                  ~WithinLimit(ret.o, els[e].price)
             /\ ret.o.id \in DOMAIN orders
             /\ els[orders[ret.o.id]] = ret.final

\* a limit order stopped with quantity left although the opposite side is not empty
StoppedAtLimit ==
    /\ PlaceOrderAccepted
    /\ Sign(ret.o.price) > 0
    /\ ret.fills # <<>>
    /\ Sign(ret.final.quantity) > 0
    /\ RestingEls(Opposite(ret.o.sell)) # {}

\* C5: a market order that PlaceOrder accepts ends with quantity zero, gets
\* no OnIncomingOrderPlaced, and enters neither the lookup nor the book.
MarketOrderFilled ==
    (PlaceOrderAccepted /\ Sign(ret.o.price) = 0) =>
        /\ Sign(ret.final.quantity) = 0
        /\ \A i \in 1..Len(ret.events) : ret.events[i].type # "OnIncomingOrderPlaced"
        /\ ret.o.id \notin DOMAIN orders
        /\ \A e \in AllResting : Sign(els[e].price) # 0

\* a market order accepted and filled across two resting orders
MarketOrderTaken ==
    /\ PlaceOrderAccepted
    /\ Sign(ret.o.price) = 0
    /\ Len(ret.fills) >= 2

\* the answer the checks give, in their order, for the order a in the
\* current book
ExpectedError(a) ==
    LET resting == SumQuantity(RestingEls(Opposite(a.sell)))
        cost == IF a.price = 0 THEN CostOf(Priority(a.sell), 1, a.quantity)
                ELSE a.price * a.quantity
    IN  IF a.quantity = Nil \/ a.quantity <= 0 THEN ErrInvalidQuantity
        ELSE IF a.price = Nil \/ a.price < 0 THEN ErrInvalidPrice
        ELSE IF a.price = 0 /\ resting < a.quantity THEN ErrInsufficientQuantity
        ELSE IF a.owner = NilWallet THEN ErrInsufficientFunds
        ELSE IF a.sell /\ wallets[a.owner].balance[base] < a.quantity
        THEN ErrInsufficientFunds
        ELSE IF ~a.sell /\ wallets[a.owner].balance[quote] < cost
        THEN ErrInsufficientFunds
        ELSE NoError

\* C6: CanPlace, and PlaceOrder for an id that is not in the lookup,
\* answers with the first that applies of InvalidQuantity, InvalidPrice,
\* InsufficientQuantity (market order, less resting on the opposite side
\* than asked), InsufficientFunds, and otherwise with no error.
ErrorPrecedence ==
    [][ (pc = "idle" /\ pc' # "idle"
            /\ \/ ret'.op = "CanPlace"
               \/ ret'.op = "PlaceOrder" /\ ret'.o.id \notin DOMAIN orders) =>
        ret'.err = ExpectedError(ret'.o)
      ]_vars

\* a market buy refused for funds: enough rests, the probed cost is beyond the wallet
MarketBuyUnfunded ==
    /\ pc = "returned"
    /\ ret.op \in {"CanPlace", "PlaceOrder"}
    /\ ret.err = ErrInsufficientFunds
    /\ ret.o.price = 0
    /\ ~ret.o.sell
    /\ ret.o.owner # NilWallet

\* C7: PlaceOrder answers OrderExists whenever an order with the incoming
\* id rests in the book, whatever else is wrong with the incoming order,
\* and leaves the book, the lookup and the wallets as they were.
OrderExistsFirst ==
    [][ (pc = "idle" /\ pc' # "idle" /\ ret'.op = "PlaceOrder"
            /\ \E e \in AllResting : els[e].id = ret'.o.id) =>
        /\ ret'.err = ErrOrderExists
        /\ UNCHANGED <<orders, asks, bids, queues, els, wallets>>
      ]_vars

\* PlaceOrder met an order of the incoming id and answered OrderExists
DuplicateRefused ==
    /\ pc = "returned"
    /\ ret.op = "PlaceOrder"
    /\ ret.err = ErrOrderExists
    /\ \E e \in AllResting : els[e].id = ret.o.id

\* C8: when PlaceOrder or ReplaceOrder returns an error, both sides, the
\* queues, the lookup, every order and every wallet are as before the call
\* and the listener has received nothing.
ErrorLeavesState ==
    [][ (pc = "idle" /\ pc' = "returned"
            /\ ret'.op \in {"PlaceOrder", "ReplaceOrder"}
            /\ ret'.err # NoError) =>
        /\ UNCHANGED <<orders, asks, bids, queues, els, wallets>>
        /\ ret'.events = <<>>
      ]_vars

\* ReplaceOrder refused a resting order's replacement for funds
ReplaceUnfunded ==
    /\ pc = "returned"
    /\ ret.op = "ReplaceOrder"
    /\ ret.err = ErrInsufficientFunds
    /\ AllResting # {}

\* C9: when the order that PlaceOrder rested without a fill is cancelled by
\* the next call, its owner's balance and in-order amounts, the order
\* counts of both sides and the lookup are what they were before the
\* placement.
PlaceCancelRestores ==
    (pc = "returned" /\ ret.op = "CancelOrder" /\ ret.undoes) =>
        /\ wallets[ret.o.owner] = snap.wallets[ret.o.owner]
        /\ asks.numOrders = snap.asksN
        /\ bids.numOrders = snap.bidsN
        /\ orders = snap.lookup

\* a buy order was rested beside another resting order and cancelled at once
BuyPlacedAndCancelled ==
    /\ pc = "returned"
    /\ ret.op = "CancelOrder"
    /\ ret.undoes
    /\ ~ret.o.sell
    /\ AllResting # {}

\* C10: a successful ReplaceOrder leaves every queue's sequence of
\* elements as it was and puts the new order, under its id, into the
\* element that held the old one; no other order changes.
ReplaceKeepsPosition ==
    [][ (pc = "idle" /\ pc' = "returned" /\ ret'.op = "ReplaceOrder"
            /\ ret'.err = NoError) =>
        LET e == orders[ret'.o.id]
        IN  /\ asks'.prices = asks.prices
            /\ bids'.prices = bids.prices
            /\ DOMAIN queues' = DOMAIN queues
            /\ \A q \in DOMAIN queues : queues'[q].orders = queues[q].orders
            /\ DOMAIN els' = DOMAIN els
            /\ els'[e] = ret'.n
            /\ \A x \in DOMAIN els \ {e} : els'[x] = els[x]
            /\ ret'.n.id \in DOMAIN orders'
            /\ orders'[ret'.n.id] = e
      ]_vars

\* the order at the front of a queue of two was replaced with another quantity
FrontOrderReplaced ==
    /\ pc = "returned"
    /\ ret.op = "ReplaceOrder"
    /\ ret.err = NoError
    /\ \E q \in DOMAIN queues :
         /\ Len(queues[q].orders) >= 2
         /\ queues[q].orders[1] = orders[ret.n.id]

\* ------------------------------------------------------------------
\* The wallet movements of one fill: those of the maker lead from
\* f.before to f.between, those of the taker from f.between to f.after
\* ------------------------------------------------------------------
AssetInc(o) == IF o.sell THEN quote ELSE base

AssetDec(o) == IF o.sell THEN base ELSE quote

\* what the free balance of the maker, or of the taker, grew by in the asset
\* it receives
CreditOf(f, isMaker) ==
    IF isMaker
    THEN f.between[f.maker.owner].balance[AssetInc(f.maker)]
           - f.before[f.maker.owner].balance[AssetInc(f.maker)]
    ELSE f.after[ret.o.owner].balance[AssetInc(ret.o)]
           - f.between[ret.o.owner].balance[AssetInc(ret.o)]

\* what the fee handler leaves of a gross amount
NetOf(f, isMaker, gross) ==
    IF isMaker
    THEN HandleFeeMaker(feeHandler, f.maker, AssetInc(f.maker), gross)
    ELSE HandleFeeTaker(feeHandler, ret.o, AssetInc(ret.o), gross)

\* C11: for every fill the free balance of the buyer grows by
\* volume.Quantity of the base asset and that of the seller by volume.Price
\* of the quote asset, each less what the fee handler withholds.
FillCreditsReceived ==
    ret.op = "PlaceOrder" =>
        \A i \in 1..Len(ret.fills) :
            LET f == ret.fills[i]
                makerBuys == ~f.maker.sell
            IN  /\ CreditOf(f, makerBuys) = NetOf(f, makerBuys, f.volume.Quantity)
                /\ CreditOf(f, ~makerBuys) = NetOf(f, ~makerBuys, f.volume.Price)

\* C11 as stated: the buyer is credited volume.Price and the seller
\* volume.Quantity, less fees.
FillCreditsAsStated ==
    ret.op = "PlaceOrder" =>
        \A i \in 1..Len(ret.fills) :
            LET f == ret.fills[i]
                makerBuys == ~f.maker.sell
            IN  /\ CreditOf(f, makerBuys) = NetOf(f, makerBuys, f.volume.Price)
                /\ CreditOf(f, ~makerBuys) = NetOf(f, ~makerBuys, f.volume.Quantity)

\* a fill whose amount differs from its quantity, settled with a fee withheld
FillWithFee ==
    /\ PlaceOrderAccepted
    /\ feeHandler = hostFeeHandlerValue
    /\ \E i \in 1..Len(ret.fills) :
         /\ ret.fills[i].volume.Price # ret.fills[i].volume.Quantity
         /\ CreditOf(ret.fills[i], FALSE) < ret.fills[i].volume.Price
         /\ CreditOf(ret.fills[i], FALSE) > 0

\* C12: on every fill the maker's debit (the fill's quantity of base for a
\* sell, its amount of quote for a buy) comes off the maker's in-order and
\* leaves its free balance of that asset alone, the taker's debit comes off
\* the taker's free balance and leaves its in-order alone, and no other
\* wallet moves; also when both orders have one owner.
FillDebitsSettled ==
    ret.op = "PlaceOrder" =>
        \A i \in 1..Len(ret.fills) :
            LET f == ret.fills[i]
                mk == f.maker
                tk == ret.o
                mDec == IF mk.sell THEN f.volume.Quantity ELSE f.volume.Price
                tDec == IF tk.sell THEN f.volume.Quantity ELSE f.volume.Price
            IN  /\ f.between[mk.owner].inOrder[AssetDec(mk)]
                     = f.before[mk.owner].inOrder[AssetDec(mk)] - mDec
                /\ f.between[mk.owner].inOrder[AssetInc(mk)]
                     = f.before[mk.owner].inOrder[AssetInc(mk)]
                /\ f.between[mk.owner].balance[AssetDec(mk)]
                     = f.before[mk.owner].balance[AssetDec(mk)]
                /\ f.after[tk.owner].balance[AssetDec(tk)]
                     = f.between[tk.owner].balance[AssetDec(tk)] - tDec
                /\ f.after[tk.owner].inOrder = f.between[tk.owner].inOrder
                /\ \A w \in Wallets \ {mk.owner} : f.between[w] = f.before[w]
                /\ \A w \in Wallets \ {tk.owner} : f.after[w] = f.between[w]

\* an order was filled against a resting order of its own owner
SelfTradeFilled ==
    /\ PlaceOrderAccepted
    /\ \E i \in 1..Len(ret.fills) :
         /\ ret.fills[i].maker.owner = ret.o.owner
         /\ ret.fills[i].volume.Price # ret.fills[i].volume.Quantity

\* the book side an order belongs to
OwnSide(sell) == IF sell THEN asks ELSE bids

\* what the owner of a resting order has frozen for it
ReserveOf(o) == IF o.sell THEN o.quantity ELSE o.price * o.quantity

\* the quantity a sequence of fills took
RECURSIVE FilledQuantity(_)
FilledQuantity(fs) ==
    IF fs = <<>> THEN 0
    ELSE Head(fs).volume.Quantity + FilledQuantity(Tail(fs))

\* C13: when PlaceOrder ends its matching with quantity left, the order
\* rests as the last of the queue of its limit price on its own side, and
\* in no other place of a queue, with exactly the quantity left; OnIncomingOrderPlaced is
\* emitted once; its owner's free balance falls and in-order rises by the
\* reserve of what is left, and nothing else moves in any wallet.
RemainderRests ==
    (PlaceOrderAccepted /\ ret.final.quantity > 0) =>
        LET o == ret.final
            a == AssetDec(o)
            h == Hash(o.price)
            \* the wallets the matching left: those after the last fill, or
            \* those the call found
            before == IF ret.fills = <<>> THEN snap.wallets
                      ELSE ret.fills[Len(ret.fills)].after
        IN  /\ o = [ret.o EXCEPT !.quantity = @ - FilledQuantity(ret.fills)]
            /\ o.id \in DOMAIN orders
            /\ els[orders[o.id]] = o
            /\ h \in DOMAIN OwnSide(o.sell).prices
            /\ LET q == queues[OwnSide(o.sell).prices[h]]
               IN  /\ q.price = o.price
                   /\ q.orders[Len(q.orders)] = orders[o.id]
            /\ \A s \in {asks, bids} : \A x \in SideQueues(s) :
                 Cardinality({i \in 1..Len(queues[x].orders) :
                                queues[x].orders[i] = orders[o.id]})
                   = IF x = OwnSide(o.sell).prices[h] THEN 1 ELSE 0
            /\ Len(EventsOf({"OnIncomingOrderPlaced"})) = 1
            /\ wallets[o.owner].balance[a] = before[o.owner].balance[a] - ReserveOf(o)
            /\ wallets[o.owner].inOrder[a] = before[o.owner].inOrder[a] + ReserveOf(o)
            /\ wallets = [before EXCEPT ![o.owner].balance[a] = @ - ReserveOf(o),
                                        ![o.owner].inOrder[a] = @ + ReserveOf(o)]

\* a buy order was filled in part and what was left of it rested
BuyRemainderRested ==
    /\ PlaceOrderAccepted
    /\ ret.final.quantity > 0
    /\ ret.fills # <<>>
    /\ ~ret.o.sell
    /\ ret.final.quantity < ret.o.quantity
    /\ ret.final.price > 1

\* the number of orders in a set of queues
RECURSIVE SumLen(_)
SumLen(qs) ==
    IF qs = {} THEN 0
    ELSE LET q == CHOOSE x \in qs : TRUE
         IN  Len(queues[q].orders) + SumLen(qs \ {q})

\* the prices the tree of a side holds
LevelPrices(s) == {s.priceTree.nodes[x].Key : x \in DOMAIN s.priceTree.nodes}

\* C14: CancelOrder of a resting order takes its element out of the queue
\* of its price, leaving the other elements in their order and the volume
\* lower by its quantity, or takes the whole level out of its side when
\* it was the last; takes its id out of the lookup; leaves every other
\* level alone; raises the owner's free balance and lowers its in-order by
\* the order's reserve; and emits OnBalanceChanged, OnInOrderChanged and
\* OnExistingOrderCanceled, in that order and nothing else.
CancelRestingEffects ==
    [][(pc = "idle" /\ ret'.op = "CancelOrder" /\ ret'.el \in AllResting) =>
        LET e == ret'.el
            o == els[e]
            a == AssetDec(o)
            h == Hash(o.price)
            own == IF o.sell THEN asks ELSE bids
            ownN == IF o.sell THEN asks' ELSE bids'
            q == own.prices[h]
            left == SelectSeq(queues[q].orders, LAMBDA x : x # e)
            bal == wallets[o.owner].balance[a] + ReserveOf(o)
            ino == wallets[o.owner].inOrder[a] - ReserveOf(o)
        IN  /\ ret'.o = o
            /\ e \in SeqRange(queues[q].orders)
            /\ o.id \notin DOMAIN orders'
            /\ orders' = MapDel(orders, o.id)
            /\ e \notin AllResting'
            /\ IF left = <<>>
               THEN /\ h \notin DOMAIN ownN.prices
                    /\ LevelPrices(ownN)
                         = LevelPrices(own) \ {o.price}
                    /\ ownN.depth = own.depth - 1
               ELSE /\ ownN.prices = own.prices
                    /\ LevelPrices(ownN) = LevelPrices(own)
                    /\ queues'[q] = [queues[q] EXCEPT
                                       !.orders = left,
                                       !.volume = @ - o.quantity]
            /\ ownN.numOrders = own.numOrders - 1
            /\ (IF o.sell THEN bids' ELSE asks') = Opposite(o.sell)
            /\ \A x \in DOMAIN queues \ {q} : queues'[x] = queues[x]
            /\ \A x \in DOMAIN els \ {e} : x \in DOMAIN els' /\ els'[x] = els[x]
            /\ wallets' = [wallets EXCEPT ![o.owner].balance[a] = bal,
                                          ![o.owner].inOrder[a] = ino]
            /\ ret'.events = << OnBalanceChanged(o.owner, a, bal),
                                OnInOrderChanged(o.owner, a, ino),
                                [type |-> "OnExistingOrderCanceled", id |-> o.id] >>
      ]_vars

\* a buy order was cancelled from behind another at its price, and gave its
\* owner back more than its quantity
BuyCancelledFromLevel ==
    /\ pc = "returned"
    /\ ret.op = "CancelOrder"
    /\ ret.el # NIL
    /\ ~ret.o.sell
    /\ ret.o.price > 1
    /\ Hash(ret.o.price) \in DOMAIN bids.prices
    /\ ret.o.id \notin DOMAIN orders

\* C15: CancelOrder with an order whose id the lookup does not have (never
\* placed, filled, or cancelled before) returns, and leaves both sides with
\* their levels and trees, every queue with its volume, every resting order
\* and the lookup as they were.
CancelUnknownKeepsBook ==
    [][(pc = "idle" /\ ret'.op = "CancelOrder"
          /\ ret'.o.id \notin DOMAIN orders) =>
        /\ pc' = "returned"
        /\ asks' = asks
        /\ bids' = bids
        /\ queues' = queues
        /\ els' = els
        /\ orders' = orders
      ]_vars

\* a resting order that an incoming order filled was cancelled afterwards,
\* with what was left of the incoming order resting
FilledOrderCancelled ==
    /\ pc = "returned"
    /\ ret.op = "CancelOrder"
    /\ ret.o.id \notin DOMAIN orders
    /\ \E h \in held : h.o = ret.o /\ h.how = "filled"
    /\ AllResting # {}

\* C16: CancelOrder with an order whose id the lookup does not have raises
\* the free balance of the order's owner and lowers its in-order by the
\* reserve of the order handed in (quantity of base for a sell, quantity x
\* price of quote for a buy) and emits OnBalanceChanged, OnInOrderChanged
\* and OnExistingOrderCanceled; so it does for an order it has cancelled
\* before.
CancelUnknownMovesWallet ==
    [][(pc = "idle" /\ ret'.op = "CancelOrder"
          /\ ret'.o.id \notin DOMAIN orders) =>
        LET o == ret'.o
            a == AssetDec(o)
            bal == wallets[o.owner].balance[a] + ReserveOf(o)
            ino == wallets[o.owner].inOrder[a] - ReserveOf(o)
        IN  /\ wallets' = [wallets EXCEPT ![o.owner].balance[a] = bal,
                                          ![o.owner].inOrder[a] = ino]
            /\ ret'.events = << OnBalanceChanged(o.owner, a, bal),
                                OnInOrderChanged(o.owner, a, ino),
                                [type |-> "OnExistingOrderCanceled", id |-> o.id] >>
      ]_vars

\* a buy order was cancelled a second time and refunded again: its owner's
\* in-order is below zero
CancelledTwice ==
    /\ pc = "returned"
    /\ ret.op = "CancelOrder"
    /\ ret.o.id \notin DOMAIN orders
    /\ \E h \in held : h.o = ret.o /\ h.how = "cancelled"
    /\ ~ret.o.sell
    /\ wallets[ret.o.owner].inOrder[quote] = 0 - ReserveOf(ret.o)
    /\ wallets[ret.o.owner].balance[quote] = InitQuote + ReserveOf(ret.o)
    /\ ReserveOf(ret.o) > 1

\* the first gate that stops the replacement n of the resting order o, or
\* NoError when none of the four does
ExpectedReplaceError(o, n) ==
    IF o.owner # n.owner \/ o.sell # n.sell \/ o.price # n.price
    THEN ErrInvalidOrder
    ELSE IF n.quantity <= 0 THEN ErrInvalidQuantity
    ELSE IF wallets[o.owner].balance[AssetDec(o)] + ReserveOf(o) - ReserveOf(n) < 0
    THEN ErrInsufficientFunds
    ELSE NoError

\* C17: ReplaceOrder(old, new) answers with the first that applies of:
\* OrderNotFound when no order of old's id rests in the book; InvalidOrder
\* when new differs from that resting order in owner, side or price;
\* InvalidQuantity when new's quantity is not positive; InsufficientFunds
\* when the owner's free balance plus the old reserve less the new reserve
\* is below zero; and with none of the four when none applies.
ReplaceErrorPrecedence ==
    [][(pc = "idle" /\ ret'.op = "ReplaceOrder") =>
        LET found == {e \in AllResting : els[e].id = ret'.o.id}
            want == {ExpectedReplaceError(els[e], ret'.n) : e \in found}
        IN  IF found = {} THEN ret'.err = ErrOrderNotFound
            ELSE \/ ret'.err \in want
                 \/ /\ NoError \in want
                    /\ ret'.err \notin {ErrOrderNotFound, ErrInvalidOrder,
                                         ErrInvalidQuantity, ErrInsufficientFunds}
      ]_vars

\* ReplaceOrder answered OrderNotFound for the id of an order that rests
ReplaceRestingNotFound ==
    /\ pc = "returned"
    /\ ret.op = "ReplaceOrder"
    /\ ret.err = ErrOrderNotFound
    /\ \E e \in AllResting : els[e].id = ret.o.id

\* C18: a successful ReplaceOrder(old, new) puts new into the element the
\* lookup held under old's id, takes old's id out of the lookup and enters
\* the element under new's id (one key when the ids are equal), changes
\* the cached volume of the level by new.quantity - old.quantity, sets the
\* owner's free balance to balance + old reserve - new reserve and its
\* in-order to in-order + new reserve - old reserve, moves nothing else in
\* the wallets, and emits OnBalanceChanged, then OnInOrderChanged.
ReplaceEffects ==
    [][(pc = "idle" /\ ret'.op = "ReplaceOrder" /\ ret'.err = NoError) =>
        LET el == orders[ret'.o.id]
            o == els[el]
            n == ret'.n
            a == AssetDec(o)
            q == (IF o.sell THEN asks ELSE bids).prices[Hash(o.price)]
            bal == wallets[o.owner].balance[a] + ReserveOf(o) - ReserveOf(n)
            ino == wallets[o.owner].inOrder[a] + ReserveOf(n) - ReserveOf(o)
        IN  /\ n.id \in DOMAIN orders'
            /\ orders'[n.id] = el
            /\ els'[el] = n
            /\ n.id # o.id => o.id \notin DOMAIN orders'
            /\ orders' = MapPut(MapDel(orders, o.id), n.id, el)
            /\ queues'[q].volume = queues[q].volume + n.quantity - o.quantity
            /\ \A x \in DOMAIN queues \ {q} : queues'[x] = queues[x]
            /\ wallets' = [wallets EXCEPT ![o.owner].balance[a] = bal,
                                          ![o.owner].inOrder[a] = ino]
            /\ ret'.events = << OnBalanceChanged(o.owner, a, bal),
                                OnInOrderChanged(o.owner, a, ino) >>
      ]_vars

\* a buy order was replaced by a larger one under another id, and its
\* owner has the larger reserve frozen
BuyReplacedUnderNewId ==
    /\ pc = "returned"
    /\ ret.op = "ReplaceOrder"
    /\ ret.err = NoError
    /\ ret.n.id # ret.o.id
    /\ ~ret.n.sell
    /\ ret.n.price > 1
    /\ ret.n.quantity > 1
    /\ Len(ret.events) = 2
    /\ ret.events[2].value = ReserveOf(ret.n)
    /\ ret.events[1].value = InitQuote - ReserveOf(ret.n)

\* C19: PushOrder puts the order, as it is given, into a new element at the
\* back of the queue of its price on its own side, making the level when
\* the side has none, and enters the element in the lookup under the
\* order's id; every other element and queue, the opposite side and every
\* wallet stay as they were, and no event is emitted, whether or not the
\* order crosses the book or its owner can fund it.
PushOrderFrame ==
    [][(pc = "idle" /\ ret'.op = "PushOrder") =>
        LET o == ret'.o
            h == Hash(o.price)
            own == IF o.sell THEN asks ELSE bids
            ownN == IF o.sell THEN asks' ELSE bids'
            had == h \in DOMAIN own.prices
            el == orders'[o.id]
            q == ownN.prices[h]
        IN  /\ pc' = "returned"
            /\ o.id \in DOMAIN orders'
            /\ el \notin DOMAIN els
            /\ els'[el] = o
            /\ orders' = MapPut(orders, o.id, el)
            /\ h \in DOMAIN ownN.prices
            /\ had => q = own.prices[h]
            /\ ~had => q \notin DOMAIN queues
            /\ queues'[q].price = o.price
            /\ queues'[q].orders
                 = (IF had THEN queues[q].orders ELSE <<>>) \o <<el>>
            /\ queues'[q].volume
                 = (IF had THEN queues[q].volume ELSE 0) + o.quantity
            /\ ownN.numOrders = own.numOrders + 1
            /\ LevelPrices(ownN) = LevelPrices(own) \cup {o.price}
            /\ \A x \in DOMAIN queues \ {q} : queues'[x] = queues[x]
            /\ \A x \in DOMAIN els : x \in DOMAIN els' /\ els'[x] = els[x]
            /\ (IF o.sell THEN bids' ELSE asks') = Opposite(o.sell)
            /\ wallets' = wallets
            /\ ret'.events = <<>>
      ]_vars

\* a buy order its owner cannot fund was pushed at or above the price of a
\* resting sell order, and both rest
UnfundedCrossingPushed ==
    /\ pc = "returned"
    /\ ret.op = "PushOrder"
    /\ ~ret.o.sell
    /\ wallets[ret.o.owner].balance[quote] < ReserveOf(ret.o)
    /\ \E e \in RestingEls(asks) : els[e].price <= ret.o.price
    /\ \E e \in RestingEls(bids) : els[e] = ret.o

\* C20: a goroutine that is inside a public method of the engine holds the
\* engine's mutex for as long as it is inside, so that no two goroutines
\* are inside the engine together.
OneCallerInside ==
    /\ \A t \in Threads : at[t] # "out" => mutex = {t}
    /\ Cardinality({t \in Threads : at[t] # "out"}) <= 1

\* a market CanPlace answered InsufficientQuantity out of its walk of the
\* book while another goroutine was inside PlaceOrder, holding the mutex
CanPlaceBesidePlaceOrder ==
    /\ ret.op = "CanPlace"
    /\ ret.o.price = 0
    /\ ret.err = ErrInsufficientQuantity
    /\ \E u \in mutex : at[u] = "PlaceOrder"

\* C22: the events of one PlaceOrder are, for each fill in match order, the
\* OnExistingOrder event of the maker (Done when nothing is left of it,
\* else Partial), the OnIncomingOrder event of the taker (likewise), both
\* with the fill's volume, OnBalanceChanged and OnInOrderChanged for the
\* maker's owner, and two balance callbacks for the taker's owner; then,
\* exactly when a remainder rests, OnIncomingOrderPlaced, OnBalanceChanged
\* and OnInOrderChanged; and no other event.
PlaceOrderEventOrder ==
    PlaceOrderAccepted =>
        LET n == Len(ret.fills)
            rests == ret.final.quantity > 0
            ev == ret.events
            Is(i, types, w) == ev[i].type \in types /\ ev[i].wallet = w
        IN  /\ Len(ev) = 6 * n + (IF rests THEN 3 ELSE 0)
            /\ \A i \in 1..n :
                 LET f == ret.fills[i]
                     k == 6 * (i - 1)
                 IN  /\ ev[k + 1] = OrderEvent(IF f.makerLeft = 0
                                               THEN "OnExistingOrderDone"
                                               ELSE "OnExistingOrderPartial",
                                               f.maker, f.volume)
                     /\ ev[k + 2] = OrderEvent(IF f.takerLeft = 0
                                               THEN "OnIncomingOrderDone"
                                               ELSE "OnIncomingOrderPartial",
                                               ret.o, f.volume)
                     /\ Is(k + 3, {"OnBalanceChanged"}, f.maker.owner)
                     /\ Is(k + 4, {"OnInOrderChanged"}, f.maker.owner)
                     /\ Is(k + 5, {"OnBalanceChanged", "OnInOrderChanged"},
                           ret.o.owner)
                     /\ Is(k + 6, {"OnBalanceChanged", "OnInOrderChanged"},
                           ret.o.owner)
            /\ rests =>
                 /\ ev[6 * n + 1] = [type |-> "OnIncomingOrderPlaced",
                                     id |-> ret.o.id]
                 /\ Is(6 * n + 2, {"OnBalanceChanged"}, ret.o.owner)
                 /\ Is(6 * n + 3, {"OnInOrderChanged"}, ret.o.owner)

\* an order took all of one resting order and part of the next, or took two
\* and rested
TwoFillsReported ==
    /\ PlaceOrderAccepted
    /\ Len(ret.fills) = 2
    /\ ret.fills[1].makerLeft = 0
    /\ ret.fills[2].makerLeft > 0 \/ ret.final.quantity > 0

\* C23: no PlaceOrder is left in its match loop for ever, and every fill of
\* a PlaceOrder that returned either took its resting order out of the
\* queues or left nothing of the incoming order.
PlaceOrderTerminates ==
    /\ pc # "hung"
    /\ (pc = "returned" /\ ret.op = "PlaceOrder") =>
         \A i \in 1..Len(ret.fills) :
            \/ ret.fills[i].takerLeft = 0
            \/ ret.fills[i].el \notin AllResting

\* a PlaceOrder that repeats a fill of nothing against the order at the
\* front of a queue
PlaceOrderHung ==
    /\ pc = "hung"
    /\ ret.op = "PlaceOrder"
    /\ \E e \in AllResting : els[e].quantity = 0

\* C24: the keys of the lookup are exactly the ids of the orders in the
\* queues of both sides, each key leads to the one element of a queue that
\* holds the order of that id, and the lookup has as many entries as
\* asks.numOrders + bids.numOrders.
LookupMatchesBook ==
    /\ DOMAIN orders = {els[e].id : e \in AllResting}
    /\ \A k \in DOMAIN orders :
         /\ orders[k] \in AllResting
         /\ els[orders[k]].id = k
    /\ \A e \in AllResting : orders[els[e].id] = e
    /\ Cardinality(DOMAIN orders) = asks.numOrders + bids.numOrders

\* an order rests in a queue and the lookup has no entry that leads to it
OrderLostToLookup ==
    \E e \in AllResting :
        els[e].id \notin DOMAIN orders \/ orders[els[e].id] # e

\* C25: the cached volume of every price level is the sum of the
\* quantities of the orders in its queue.
VolumeIsSum ==
    \A s \in {asks, bids} : \A q \in SideQueues(s) :
        queues[q].volume = SumQuantity(SeqRange(queues[q].orders))

\* a level whose cached volume is more than its orders hold
VolumeStale ==
    \E s \in {asks, bids} : \E q \in SideQueues(s) :
        queues[q].volume > SumQuantity(SeqRange(queues[q].orders))

\* C26: on each side the map of levels and the price tree hold the same
\* prices, each level is filed under the hash of its own price and is the
\* tree's value for it, depth is their number, no level has an empty
\* queue, and numOrders is the number of orders in the side's queues.
SideIsConsistent ==
    \A s \in {asks, bids} :
        /\ {queues[q].price : q \in SideQueues(s)} = LevelPrices(s)
        /\ \A h \in DOMAIN s.prices : Hash(queues[s.prices[h]].price) = h
        /\ \A x \in DOMAIN s.priceTree.nodes :
             /\ Hash(s.priceTree.nodes[x].Key) \in DOMAIN s.prices
             /\ s.prices[Hash(s.priceTree.nodes[x].Key)] = s.priceTree.nodes[x].Value
        /\ s.depth = Cardinality(DOMAIN s.prices)
        /\ s.depth = Cardinality(LevelPrices(s))
        /\ s.depth = s.priceTree.size
        /\ \A q \in SideQueues(s) : queues[q].orders # <<>>
        /\ s.numOrders = SumLen(SideQueues(s))

\* a side holds two levels, one of them with two orders
TwoLevelsThreeOrders ==
    \E s \in {asks, bids} : s.depth = 2 /\ s.numOrders = 3

RECURSIVE SumOver(_)
SumOver(f) ==
    IF DOMAIN f = {} THEN 0
    ELSE LET x == CHOOSE y \in DOMAIN f : TRUE
         IN  f[x] + SumOver([y \in DOMAIN f \ {x} |-> f[y]])

\* what a taker of q takes from level l of side s, the levels of a better
\* price being taken whole before it
TakenFrom(s, sell, q, l) ==
    LET ahead == {k \in SideQueues(s) :
                    IF sell THEN queues[k].price > queues[l].price
                            ELSE queues[k].price < queues[l].price}
        left == q - SumOver([k \in ahead |-> queues[k].volume])
    IN  IF left <= 0 THEN 0
        ELSE IF left < queues[l].volume THEN left ELSE queues[l].volume

\* C27: Price(sell, q) for q > 0 returns the sum over the levels of the
\* opposite side of level price times the quantity taken from the level,
\* levels being taken best price first; it fails with
\* ErrInsufficientQuantity exactly when q exceeds the sum of the volumes of
\* the opposite side; and it leaves book, lookup and wallets as they were.
PriceIsCost ==
    [][(pc' = "returned" /\ ret'.op = "Price" /\ ret'.o.quantity > 0) =>
         LET sell == ret'.o.sell
             q == ret'.o.quantity
             s == Opposite(sell)
             total == SumOver([l \in SideQueues(s) |-> queues[l].volume])
         IN  /\ ret'.err = (IF q > total THEN ErrInsufficientQuantity
                                         ELSE NoError)
             /\ ret'.out =
                  (IF q > total THEN Nil
                   ELSE SumOver([l \in SideQueues(s) |->
                          queues[l].price * TakenFrom(s, sell, q, l)]))
             /\ UNCHANGED <<orders, asks, bids, queues, els, wallets>>
      ]_vars

\* Price has returned a cost made of two levels
PriceOverTwoLevels ==
    /\ pc = "returned" /\ ret.op = "Price" /\ ret.err = NoError
    /\ Opposite(ret.o.sell).depth = 2
    /\ \A l \in SideQueues(Opposite(ret.o.sell)) :
          TakenFrom(Opposite(ret.o.sell), ret.o.sell, ret.o.quantity, l) > 0

\* C28: Quantity(sell, priceLim) returns the sum of the volumes of the
\* levels of the opposite side whose price is executable at priceLim (bid
\* levels at or above it for sell, ask levels at or below it for buy), of
\* all its levels when priceLim is absent, an absent Value standing for
\* the sum of no level; and it leaves book, lookup and wallets as they were.
QuantityIsDepth ==
    [][(pc' = "returned" /\ ret'.op = "Quantity") =>
         LET sell == ret'.o.sell
             priceLim == ret'.o.price
             within == {l \in SideQueues(Opposite(sell)) :
                          \/ priceLim = Nil
                          \/ sell /\ queues[l].price >= priceLim
                          \/ ~sell /\ queues[l].price <= priceLim}
         IN  /\ checkNil(ret'.out) = SumOver([l \in within |-> queues[l].volume])
             /\ ret'.out = Nil => within = {}
             /\ UNCHANGED <<orders, asks, bids, queues, els, wallets>>
      ]_vars

\* Quantity has returned the volume of one of two levels
QuantityStoppedAtLimit ==
    /\ pc = "returned" /\ ret.op = "Quantity" /\ ret.o.price # Nil
    /\ Opposite(ret.o.sell).depth = 2
    /\ \E l \in SideQueues(Opposite(ret.o.sell)) : ret.out = queues[l].volume

\* what iter receives for level l
LevelSeen(isAsk, l) ==
    [asks |-> isAsk, price |-> queues[l].price, volume |-> queues[l].volume,
     len |-> Len(queues[l].orders)]

\* C29: OrderBook calls iter once for every level of the book and for
\* nothing else: first for the ask levels in strictly descending price
\* order, then for the bid levels in strictly descending price order, each
\* time with the side flag, the price, the cached volume and the number of
\* queued orders of the level.
OrderBookWalk ==
    [][(pc' = "returned" /\ ret'.op = "OrderBook") =>
         LET seen == ret'.out
             na == Cardinality(SideQueues(asks))
             nb == Cardinality(SideQueues(bids))
         IN  /\ Len(seen) = na + nb
             /\ \A i \in 1..Len(seen) : seen[i].asks = (i <= na)
             /\ \A i \in 1..Len(seen) :
                   \E l \in SideQueues(IF i <= na THEN asks ELSE bids) :
                      seen[i] = LevelSeen(i <= na, l)
             /\ \A l \in SideQueues(asks) :
                   Cardinality({i \in 1..Len(seen) :
                                  seen[i] = LevelSeen(TRUE, l)}) = 1
             /\ \A l \in SideQueues(bids) :
                   Cardinality({i \in 1..Len(seen) :
                                  seen[i] = LevelSeen(FALSE, l)}) = 1
             /\ \A i \in 1..Len(seen), j \in 1..Len(seen) :
                   (i < j /\ seen[i].asks = seen[j].asks) =>
                      seen[i].price > seen[j].price
             /\ UNCHANGED <<orders, asks, bids, queues, els, wallets>>
      ]_vars

\* OrderBook has walked asks and bids
BothSidesWalked ==
    /\ pc = "returned" /\ ret.op = "OrderBook"
    /\ Len(ret.out) = 2
    /\ ret.out[1].asks /\ ~ret.out[2].asks
    /\ ret.out[2].len = 2

\* C30: Spread returns as best ask the lowest price of the orders resting
\* among the asks and as best bid the highest price of the orders resting
\* among the bids; a component is absent exactly when no order rests on
\* its side.
SpreadIsBest ==
    (pc = "returned" /\ ret.op = "Spread") =>
        /\ ret.out[1] = (IF RestingEls(asks) = {} THEN Nil
                         ELSE els[CHOOSE e \in RestingEls(asks) :
                                \A f \in RestingEls(asks) :
                                   els[e].price <= els[f].price].price)
        /\ ret.out[2] = (IF RestingEls(bids) = {} THEN Nil
                         ELSE els[CHOOSE e \in RestingEls(bids) :
                                \A f \in RestingEls(bids) :
                                   els[e].price >= els[f].price].price)

\* Spread has chosen between two prices on one side, the other side empty
SpreadOfTwoLevels ==
    /\ pc = "returned" /\ ret.op = "Spread"
    /\ \/ asks.depth = 2 /\ ret.out[1] = 1 /\ ret.out[2] = Nil
       \/ bids.depth = 2 /\ ret.out[2] = 2 /\ ret.out[1] = Nil

\* C31: FindOrder(id) returns an order that rests in the book under that
\* id whenever one does, and ErrOrderNotFound when none does.
FindOrderFindsResting ==
    (pc = "returned" /\ ret.op = "FindOrder") =>
        LET resting == {e \in AllResting : els[e].id = ret.o.id}
        IN  IF resting # {}
            THEN ret.err = NoError /\ \E e \in resting : ret.out = els[e]
            ELSE ret.err = ErrOrderNotFound

\* FindOrder has not found an order that rests in a queue
RestingOrderNotFound ==
    /\ pc = "returned" /\ ret.op = "FindOrder"
    /\ ret.err = ErrOrderNotFound
    /\ \E e \in AllResting : els[e].id = ret.o.id

\* C32: on each fill the fee handler is called twice and no more:
\* HandleFeeMaker for the maker and then HandleFeeTaker for the taker, each
\* with the asset that order receives and its gross amount (the fill's
\* amount of quote for a sell, its quantity of base for a buy); the free
\* balance of the owner grows by what the call returned; and with no fee
\* handler set the call returns the gross amount.
FeeHandlerCalls ==
    ret.op = "PlaceOrder" =>
        /\ Len(ret.fees) = 2 * Len(ret.fills)
        /\ \A i \in 1..Len(ret.fills) :
             LET f == ret.fills[i]
                 mk == ret.fees[2 * i - 1]
                 tk == ret.fees[2 * i]
             IN  /\ mk.maker /\ mk.id = f.maker.id /\ mk.owner = f.maker.owner
                 /\ mk.asset = AssetInc(f.maker)
                 /\ mk.in = (IF f.maker.sell THEN f.volume.Price
                                             ELSE f.volume.Quantity)
                 /\ CreditOf(f, TRUE) = mk.out
                 /\ ~tk.maker /\ tk.id = ret.o.id /\ tk.owner = ret.o.owner
                 /\ tk.asset = AssetInc(ret.o)
                 /\ tk.in = (IF ret.o.sell THEN f.volume.Price
                                           ELSE f.volume.Quantity)
                 /\ CreditOf(f, FALSE) = tk.out
                 /\ feeHandler # hostFeeHandlerValue =>
                       mk.out = mk.in /\ tk.out = tk.in

\* a fill of which the host's fee handler kept a part on both sides
FeeTakenFromBoth ==
    /\ PlaceOrderAccepted
    /\ feeHandler = hostFeeHandlerValue
    /\ Len(ret.fees) = 2
    /\ 0 < ret.fees[1].out /\ ret.fees[1].out < ret.fees[1].in
    /\ 0 < ret.fees[2].out /\ ret.fees[2].out < ret.fees[2].in

\* C33: every fill of an accepted PlaceOrder has for quantity the lesser
\* of what taker and maker had left, and takes exactly that from both; a
\* maker left with nothing is reported OnExistingOrderDone and is then in
\* no queue and not in the lookup; a maker left with something is reported
\* OnExistingOrderPartial and is then first of its queue with what it has
\* left, the lookup leading to it, and the volume of its level is lower by
\* the quantity filled at that level.
FillTakesTheLesser ==
    [][(pc' = "returned" /\ ret'.op = "PlaceOrder" /\ ret'.err = NoError) =>
         \A i \in 1..Len(ret'.fills) :
            LET f == ret'.fills[i]
                lesser == IF f.takerQty < f.maker.quantity
                          THEN f.takerQty ELSE f.maker.quantity
            IN  /\ f.volume.Quantity = lesser
                /\ f.takerLeft = f.takerQty - lesser
                /\ f.makerLeft = f.maker.quantity - lesser
                /\ ret'.events[6 * i - 5].type =
                      (IF f.makerLeft = 0 THEN "OnExistingOrderDone"
                                          ELSE "OnExistingOrderPartial")
                /\ IF f.makerLeft = 0
                   THEN /\ f.el \notin AllResting'
                        /\ f.maker.id \notin DOMAIN orders'
                   ELSE /\ f.level \in DOMAIN queues'
                        /\ Head(queues'[f.level].orders) = f.el
                        /\ els'[f.el] = [f.maker EXCEPT !.quantity = f.makerLeft]
                        /\ f.maker.id \in DOMAIN orders'
                        /\ orders'[f.maker.id] = f.el
                        /\ queues'[f.level].volume =
                             queues[f.level].volume
                               - FilledQuantity(SelectSeq(ret'.fills,
                                     LAMBDA g : g.level = f.level))
      ]_vars

\* a maker filled to nothing is still in its queue when PlaceOrder returns
FilledMakerStillQueued ==
    /\ PlaceOrderAccepted
    /\ \E i \in 1..Len(ret.fills) :
         /\ ret.fills[i].makerLeft = 0
         /\ ret.fills[i].el \in AllResting
         /\ els[ret.fills[i].el].quantity = 0

\* the nodes below and at n
RECURSIVE TreeNodes(_, _)
TreeNodes(t, n) ==
    IF n = NIL THEN {}
    ELSE {n} \cup TreeNodes(t, t.nodes[n].Left) \cup TreeNodes(t, t.nodes[n].Right)

\* the number of black nodes on every path from n down to nil, nil
\* counting one; -1 when two paths differ
RECURSIVE BlackHeight(_, _)
BlackHeight(t, n) ==
    IF n = NIL THEN 1
    ELSE LET l == BlackHeight(t, t.nodes[n].Left)
             r == BlackHeight(t, t.nodes[n].Right)
         IN  IF l = -1 \/ r = -1 \/ l # r THEN -1
             ELSE l + (IF t.nodes[n].color = black THEN 1 ELSE 0)

\* the keys of the tree with their values, node by node
TreeMap(t) ==
    [k \in {t.nodes[n].Key : n \in DOMAIN t.nodes} |->
        t.nodes[CHOOSE n \in DOMAIN t.nodes : t.nodes[n].Key = k].Value]

IsRedBlack(t) ==
    /\ nodeColor(t, t.root) = black
    /\ t.root # NIL => t.nodes[t.root].Parent = NIL
    /\ TreeNodes(t, t.root) = DOMAIN t.nodes
    /\ \A n \in DOMAIN t.nodes :
          LET l == t.nodes[n].Left
              r == t.nodes[n].Right
          IN  /\ l # NIL => /\ t.nodes[l].Parent = n
                            /\ \A x \in TreeNodes(t, l) :
                                  t.nodes[x].Key < t.nodes[n].Key
              /\ r # NIL => /\ t.nodes[r].Parent = n
                            /\ \A x \in TreeNodes(t, r) :
                                  t.nodes[x].Key > t.nodes[n].Key
              /\ t.nodes[n].color = red =>
                    nodeColor(t, l) = black /\ nodeColor(t, r) = black
    /\ BlackHeight(t, t.root) # -1
    /\ t.size = Cardinality(DOMAIN t.nodes)
    /\ t.size = Cardinality(DOMAIN TreeMap(t))

\* C34: after every put and remove the price index is a binary search
\* tree over distinct keys with a black root, no red node with a red child
\* and the same number of black nodes on every path from the root to nil;
\* its size is the number of its keys; put adds the key with the value or
\* overwrites the value of a key there is, leaving the other keys with
\* their values; remove takes the key out and leaves the others, and
\* leaves the tree as it is when the key is absent.
TreeStaysRedBlack ==
    [][/\ IsRedBlack(asks'.priceTree)
       /\ ret'.op = "put" =>
            TreeMap(asks'.priceTree) =
              [k \in DOMAIN TreeMap(asks.priceTree) \cup {ret'.o.price} |->
                 IF k = ret'.o.price THEN ret'.o.quantity
                 ELSE TreeMap(asks.priceTree)[k]]
       /\ ret'.op = "remove" =>
            /\ TreeMap(asks'.priceTree) =
                 [k \in DOMAIN TreeMap(asks.priceTree) \ {ret'.o.price} |->
                    TreeMap(asks.priceTree)[k]]
            /\ ret'.o.price \notin DOMAIN TreeMap(asks.priceTree) =>
                 asks'.priceTree = asks.priceTree
      ]_vars

\* a remove has left three keys, all in black nodes
ThreeBlackAfterRemove ==
    /\ ret.op = "remove"
    /\ asks.priceTree.size = 3
    /\ \A n \in DOMAIN asks.priceTree.nodes :
          asks.priceTree.nodes[n].color = black

\* what all wallets hold of an asset, free and in orders
TotalOf(ws, a) ==
    SumOver([w \in DOMAIN ws |-> ws[w].balance[a] + ws[w].inOrder[a]])

\* C35: with the identity fee handler (none set, or the engine's own
\* emptyFeeHandler), every PlaceOrder, CancelOrder, ReplaceOrder and
\* PushOrder call leaves the sum over all wallets of free balance plus
\* in-order of each asset as it found it.
AssetsConserved ==
    [][(feeHandler \in {NilFeeHandler, emptyFeeHandlerValue}) =>
         \A a \in Assets : TotalOf(wallets', a) = TotalOf(wallets, a)]_vars

\* a fill has moved both assets between two wallets
FilledBetweenWallets ==
    /\ PlaceOrderAccepted
    /\ feeHandler = emptyFeeHandlerValue
    /\ \E i \in 1..Len(ret.fills) :
         /\ ret.fills[i].maker.owner # ret.o.owner
         /\ ret.fills[i].after # ret.fills[i].before

\* C36: wallets that start with no negative free balance have none after
\* any PlaceOrder, CancelOrder and ReplaceOrder calls, the fee handler
\* returning between nothing and the gross amount.
\* An accepted PlaceOrder debits its owner, in fills and in the reserve of
\* what rests, no more than the free balance the owner had.
BalanceNeverNegative ==
    [][/\ \A w \in DOMAIN wallets' : \A a \in Assets :
            wallets'[w].balance[a] >= 0
       /\ (pc' = "returned" /\ ret'.op = "PlaceOrder" /\ ret'.err = NoError) =>
            SumOver([i \in 1..Len(ret'.fills) |->
                       IF ret'.o.sell THEN ret'.fills[i].volume.Quantity
                                      ELSE ret'.fills[i].volume.Price])
              + (IF ret'.final.quantity > 0 THEN ReserveOf(ret'.final) ELSE 0)
              <= wallets[ret'.o.owner].balance[AssetDec(ret'.o)]
      ]_vars

\* a market buy has spent all its owner had
MarketBuySpentAll ==
    /\ PlaceOrderAccepted
    /\ ~ret.o.sell /\ ret.o.price = 0 /\ ret.fills # <<>>
    /\ wallets[ret.o.owner].balance[quote] = 0

\* C37: every wallet's in-order amount of base is the sum of the quantities
\* of its sell orders resting in the book, and its in-order amount of quote
\* the sum of price times quantity of its resting buy orders; so no
\* in-order amount is negative.
InOrderIsReserved ==
    \A w \in DOMAIN wallets :
        /\ wallets[w].inOrder[base] =
             SumOver([e \in {x \in RestingEls(asks) : els[x].owner = w} |->
                        els[e].quantity])
        /\ wallets[w].inOrder[quote] =
             SumOver([e \in {x \in RestingEls(bids) : els[x].owner = w} |->
                        els[e].price * els[e].quantity])

\* a wallet's in-order amount is below nothing
InOrderNegative ==
    \E w \in DOMAIN wallets : \E a \in Assets : wallets[w].inOrder[a] < 0

\* C38: every order resting in a queue has a quantity above zero and
\* every price level a price above zero.
RestingIsPositive ==
    /\ \A e \in AllResting : els[e].quantity > 0
    /\ \A s \in {asks, bids} : \A q \in SideQueues(s) : queues[q].price > 0

\* an order of quantity zero rests in a queue
ZeroQuantityResting ==
    \E e \in AllResting : els[e].quantity = 0

\* C39: the fills of an accepted market order pay in all what
\* Price(sell, quantity) returns on the book the call finds, and take in
\* all the order's quantity.
MarketFillsCostPrice ==
    [][(pc' = "returned" /\ ret'.op = "PlaceOrder" /\ ret'.err = NoError
          /\ ret'.o.price = 0) =>
         \E probe \in {price(Machine, ret'.o.sell, ret'.o.quantity)} :
            /\ probe.err = NoError
            /\ SumOver([i \in 1..Len(ret'.fills) |->
                          ret'.fills[i].volume.Price]) = probe.value
            /\ FilledQuantity(ret'.fills) = ret'.o.quantity
            /\ ~ret'.o.sell =>
                 wallets'[ret'.o.owner].balance[quote] =
                   wallets[ret'.o.owner].balance[quote] - probe.value
                   + SumOver([i \in {j \in 1..Len(ret'.fills) :
                                       ret'.fills[j].maker.owner = ret'.o.owner} |->
                                ret'.fills[i].volume.Price])
      ]_vars

\* a market buy filled over two price levels
MarketBuyOverTwoLevels ==
    /\ PlaceOrderAccepted
    /\ ~ret.o.sell /\ ret.o.price = 0
    /\ Len(ret.fills) = 2
    /\ ret.fills[1].maker.price # ret.fills[2].maker.price

\* C40: ReplaceOrder never returns ErrInvalidPrice: an order the lookup
\* leads to is queued at the level of its price on its own side, so a new
\* order whose price compares equal finds that level under its Hash.
ReplaceNeverInvalidPrice ==
    /\ ret.op = "ReplaceOrder" => ret.err # ErrInvalidPrice
    /\ \A k \in DOMAIN orders :
          LET o == els[orders[k]]
              own == IF o.sell THEN asks ELSE bids
          IN  /\ Hash(o.price) \in DOMAIN own.prices
              /\ orders[k] \in SeqRange(queues[own.prices[Hash(o.price)]].orders)

\* ReplaceOrder has passed every gate for an order that shares its level
ReplacedInSharedLevel ==
    /\ pc = "returned" /\ ret.op = "ReplaceOrder" /\ ret.err = NoError
    /\ ret.n.id \in DOMAIN orders
    /\ \E s \in {asks, bids} : \E q \in SideQueues(s) :
          /\ orders[ret.n.id] \in SeqRange(queues[q].orders)
          /\ Len(queues[q].orders) = 2

=============================================================================
